---- MODULE Spec2Model ----
(***************************************************************************)
(* Validation process orchestration engine of validation_agent:            *)
(* api/services.py (EnrollmentValidationService) on top of                 *)
(* api/repositories.py (record repository, in-memory and MongoDB process   *)
(* repositories).                                                          *)
(*                                                                         *)
(* Python values are tagged records: [t |-> "NoneType"], [t |-> "str",     *)
(* v |-> <<characters>>], [t |-> "dict", v |-> function], ...  A Python    *)
(* string that is inspected character by character (an identifier) is a    *)
(* sequence of one-character strings, "\n" being the line feed; a string   *)
(* that is only stored and compared (a message, an email) is atomic.       *)
(***************************************************************************)
EXTENDS Integers, Sequences, FiniteSets, TLC

VARIABLES backend, processes, tasks, event, faults, clock

vars == <<backend, processes, tasks, event, faults, clock>>

(***************************************************************************)
(* Bounds of the model.                                                    *)
(***************************************************************************)
\* number of process identifiers uuid.uuid4() hands out before create is cut off
MaxProcs == 2
\* number of repository calls that go wrong in one run
MaxFaults == 1
\* the same for the run of a single background task
MaxTaskFaults == 3
\* longest run of extra characters appended to an identifier (format inputs)
MaxExtra == 2
\* last reading of the wall clock, in microseconds
MaxClock == 3

(***************************************************************************)
(* Python values.                                                          *)
(***************************************************************************)
None == [t |-> "NoneType"]

PyStr(s) == [t |-> "str", v |-> s]

PyBool(b) == [t |-> "bool", v |-> b]

PyInt(n) == [t |-> "int", v |-> n]

PyList(s) == [t |-> "list", v |-> s]

PyDict(f) == [t |-> "dict", v |-> f]

IsNone(x) == x.t = "NoneType"

\* truth value of a Python object as tested by `if not x`
Truthy(x) ==
    CASE x.t = "NoneType" -> FALSE
      [] x.t = "dict" -> DOMAIN x.v # {}
      [] OTHER -> TRUE

\* dict.get(key, default)
DictGet(d, key, default) == IF key \in DOMAIN d.v THEN d.v[key] ELSE default

(***************************************************************************)
(* Identifier format: api/services.py _validate_uuid_format.               *)
(***************************************************************************)
Digits == {"0", "1", "2", "3", "4", "5", "6", "7", "8", "9"}

HexLower == {"a", "b", "c", "d", "e", "f"}

HexUpper == {"A", "B", "C", "D", "E", "F"}

\* the character class [0-9a-f] under re.IGNORECASE
MatchesHexClass(c) == c \in Digits \/ c \in HexLower \/ c \in HexUpper

\* [0-9a-f]{4}, [0-9a-f]{8}, [0-9a-f]{12}: "h" stands for the class
Hex4 == <<"h", "h", "h", "h">>

Hex8 == Hex4 \o Hex4

Hex12 == Hex8 \o Hex4

\* uuid_pattern between ^ and $, one item per character it consumes
PatternBody == Hex8 \o <<"-">> \o Hex4 \o <<"-">> \o Hex4 \o <<"-">> \o Hex4 \o <<"-">> \o Hex12

PatternLen == Len(PatternBody)

MatchesItem(item, c) == IF item = "h" THEN MatchesHexClass(c) ELSE c = item

\* the body of the pattern matched at the start of s (re.match anchors at 0)
MatchesBody(s) ==
    /\ Len(s) >= PatternLen
    /\ \A i \in 1..PatternLen : MatchesItem(PatternBody[i], s[i])

\* Python's $ without re.MULTILINE: the end of the string, or just before a
\* line feed that is the last character of the string
DollarMatchesAt(s, pos) ==
    \/ pos = Len(s) + 1
    \/ (pos = Len(s) /\ s[pos] = "\n")

\* re.match(uuid_pattern, uuid_str, re.IGNORECASE) is not None
ReMatchUuid(s) == MatchesBody(s) /\ DollarMatchesAt(s, PatternLen + 1)

\* a format check that answers False for a missing identifier
_validate_uuid_format_lenient(uuid_str) ==
    IF uuid_str.t # "str"
    THEN [raised |-> "", value |-> FALSE]
    ELSE [raised |-> "", value |-> ReMatchUuid(uuid_str.v)]

\* _validate_uuid_format: re.match raises TypeError on a non-string argument
_validate_uuid_format(uuid_str) ==
    IF uuid_str.t # "str"
    THEN [raised |-> "TypeError", value |-> FALSE]
    ELSE [raised |-> "", value |-> ReMatchUuid(uuid_str.v)]

(***************************************************************************)
(* Identifiers used as inputs.  Join5 builds an identifier from its five   *)
(* groups.                                                                 *)
(***************************************************************************)
Hy == <<"-">>

Join5(a, b, c, d, e) == a \o Hy \o b \o Hy \o c \o Hy \o d \o Hy \o e

G1 == <<"1", "2", "3", "4", "5", "6", "7", "8">>

G2 == <<"1", "2", "3", "4">>

G3 == <<"5", "6", "7", "8">>

G4 == <<"9", "0", "1", "2">>

\* "12345678-1234-5678-9012-123456789abc"  (tests/test_uuid_validation.py)
UuidLower == Join5(G1, G2, G3, G4, <<"1", "2", "3", "4", "5", "6", "7", "8", "9", "a", "b", "c">>)

\* "12345678-1234-5678-9012-123456789ABC"
UuidUpper == Join5(G1, G2, G3, G4, <<"1", "2", "3", "4", "5", "6", "7", "8", "9", "A", "B", "C">>)

\* "12345678-1234-5678-9012-123456789012": well formed, no record
UuidFake == Join5(G1, G2, G3, G4, <<"1", "2", "3", "4", "5", "6", "7", "8", "9", "0", "1", "2">>)

\* "12345678-1234-5678-9012": too short
UuidShort == G1 \o Hy \o G2 \o Hy \o G3 \o Hy \o G4

\* "12345678-1234-5678-9012-123456789abc\n"
UuidNewline == UuidLower \o <<"\n">>

(***************************************************************************)
(* Record store (enrollmentForm collection): an external collaborator,     *)
(* read only.  Two documents are stored; every read either answers from    *)
(* the collection or fails, and MongoEnrollmentRepository.get_by_uuid      *)
(* turns the failure into None.                                            *)
(***************************************************************************)
\* students_info of an enrollment document: the first student has no
\* gender stored and a null birthdate
Students ==
    PyList(<<PyDict([id |-> PyStr("s1"),
                     first_name |-> PyStr(<<"J", "a", "n", "e">>),
                     last_name |-> PyStr(<<"D", "o", "e">>),
                     birthdate |-> None,
                     address |-> PyDict([city |-> PyStr(<<"X">>)]),
                     application_info |-> PyDict([applyingGrade |-> PyInt(1)])]),
             PyDict([id |-> PyStr("s2"),
                     first_name |-> PyStr(<<"J", "o", "h", "n">>),
                     last_name |-> PyStr(<<"D", "o", "e">>)])>>)

\* a complete enrollment document
DocFull(u) ==
    PyDict([uuid_str |-> PyStr(u),
            email |-> PyStr("a@example.com"),
            phone |-> PyStr("555"),
            students_info |-> Students,
            verification |-> PyDict([verified |-> PyBool(TRUE)])])

\* an enrollment document whose students_info is stored as null and that
\* has no email
DocNullStudents(u) ==
    PyDict([uuid_str |-> PyStr(u),
            phone |-> PyStr("556"),
            students_info |-> None,
            verification |-> PyDict([verified |-> PyBool(FALSE)])])

\* "12345678-1234-5678-9012-123456789abd": a second family
UuidSibling == G1 \o Hy \o G2 \o Hy \o G3 \o Hy \o G4 \o Hy \o <<"1", "2", "3", "4", "5", "6", "7", "8", "9", "a", "b", "d">>

\* an enrollment document whose only student is the second of Students
DocSibling(u) ==
    PyDict([uuid_str |-> PyStr(u),
            email |-> PyStr("b@example.com"),
            phone |-> PyStr("557"),
            students_info |-> PyList(<<Students.v[2]>>)])

\* contents of the enrollmentForm collection, keyed by uuid_str
EnrollmentCollection ==
    (PyStr(UuidLower) :> DocFull(UuidLower)) @@ (PyStr(UuidUpper) :> DocNullStudents(UuidUpper))
        @@ (PyStr(UuidSibling) :> DocSibling(UuidSibling))

\* collection.find_one({"uuid_str": uuid_str}) with the _id removed
FindOneEnrollment(uuid_str) ==
    IF uuid_str \in DOMAIN EnrollmentCollection THEN EnrollmentCollection[uuid_str] ELSE None

\* MongoEnrollmentRepository.get_by_uuid: fault says that the collection
\* access raised; the exception is logged and None is returned
get_by_uuid(uuid_str, fault) == IF fault THEN None ELSE FindOneEnrollment(uuid_str)

\* an exists that answers from the collection whatever happened to the read
exists_unmasked(uuid_str, fault) == PyBool(~IsNone(FindOneEnrollment(uuid_str)))

\* MongoEnrollmentRepository.exists: get_by_uuid(uuid_str) is not None
exists(uuid_str, fault) == PyBool(~IsNone(get_by_uuid(uuid_str, fault)))

\* MongoEnrollmentRepository.get_all_uuids: the uuid_str of every document
\* that has one, in the order of the cursor; an exception raised by the
\* collection or by the cursor is logged and [] is returned
get_all_uuids(fault) ==
    LET keys == {k \in DOMAIN EnrollmentCollection :
                    "uuid_str" \in DOMAIN EnrollmentCollection[k].v}
        cursor == CHOOSE order \in [1..Cardinality(keys) -> keys] :
                      {order[i] : i \in DOMAIN order} = keys
    IN  IF fault
        THEN PyList(<<>>)
        ELSE PyList([i \in DOMAIN cursor |-> EnrollmentCollection[cursor[i]].v.uuid_str])

(***************************************************************************)
(* api/models.py: ValidationStatus and ValidationProcess.                  *)
(***************************************************************************)
PENDING == "PENDING"

IN_PROGRESS == "IN_PROGRESS"

COMPLETED == "COMPLETED"

FAILED == "FAILED"

\* member.value
StatusValue(member) ==
    CASE member = PENDING -> "pending"
      [] member = IN_PROGRESS -> "in_progress"
      [] member = COMPLETED -> "completed"
      [] member = FAILED -> "failed"

\* ValidationStatus(value): the member with that value
ValidationStatus(value) ==
    CASE value = "pending" -> PENDING
      [] value = "in_progress" -> IN_PROGRESS
      [] value = "completed" -> COMPLETED
      [] value = "failed" -> FAILED

\* a datetime: microseconds since the start of the run
PyDatetime(us) == [t |-> "datetime", v |-> us]

\* datetime.now(timezone.utc)
Now == PyDatetime(clock)

ValidationProcess(process_id, uuid_str, email, status, created_at, updated_at, error_message, result_data) ==
    [t |-> "ValidationProcess",
     process_id |-> process_id,
     uuid_str |-> uuid_str,
     email |-> email,
     status |-> status,
     created_at |-> created_at,
     updated_at |-> updated_at,
     error_message |-> error_message,
     result_data |-> result_data]

(***************************************************************************)
(* Exceptions: the kind is what `except` and the caller see, the message   *)
(* is str(e).                                                              *)
(***************************************************************************)
NoException == ""

ExcMessage(kind) ==
    CASE kind = "ValidationProcessNotFoundError" -> PyStr("Validation process not found")
      [] kind = "PyMongoError" -> PyStr("storage backend failure")
      [] kind = "TypeError" -> PyStr("object of type 'NoneType' has no len()")
      [] kind = "AttributeError" -> PyStr("'NoneType' object has no attribute 'get'")

(***************************************************************************)
(* Process identifiers.  uuid.uuid4() draws 122 random bits; it is         *)
(* modelled as handing out an identifier that is not in use, the least     *)
(* one since identifiers are interchangeable.                              *)
(***************************************************************************)
ProcIds == 1..MaxProcs

\* an identifier no create ever returns ("nonexistent-process-id")
UnknownProcId == 0

uuid4Repeat(used) == 1

uuid4(used) == CHOOSE id \in ProcIds \ used : \A other \in ProcIds \ used : id <= other

\* d[k] = v on a dict / insert or replace of a document
Put(d, k, v) == [x \in DOMAIN d \cup {k} |-> IF x = k THEN v ELSE d[x]]

\* what a repository call hands back: the exception raised (or none), the
\* value returned, and the store after the call
Outcome(raised, value, store) == [raised |-> raised, value |-> value, store |-> store]

(***************************************************************************)
(* InMemoryValidationProcessRepository: _processes is a dict               *)
(* process_id -> ValidationProcess.                                        *)
(***************************************************************************)
InMemory_create(store, uuid_str, email) ==
    LET process_id == uuid4(DOMAIN store)
        process == ValidationProcess(process_id, uuid_str, email, PENDING, Now, None,
                                     None, None)
    IN  Outcome(NoException, process, Put(store, process_id, process))

InMemory_get_by_id(store, process_id) ==
    IF process_id \in DOMAIN store THEN store[process_id] ELSE None

\* an update that rebuilds the dict with the updated process alone
InMemory_update_status_clobber(store, process_id, status, error_message, result_data) ==
    LET process == InMemory_get_by_id(store, process_id)
    IN  IF ~Truthy(process)
        THEN Outcome("ValidationProcessNotFoundError", None, store)
        ELSE LET updated_process ==
                     ValidationProcess(process.process_id, process.uuid_str, process.email,
                                       status, process.created_at, Now,
                                       error_message, result_data)
             IN  Outcome(NoException, updated_process, process_id :> updated_process)

\* an update that stores a process under an identifier it does not know
InMemory_update_status_upsert(store, process_id, status, error_message, result_data) ==
    LET updated_process == ValidationProcess(process_id, None, None, status, Now, Now,
                                             error_message, result_data)
    IN  Outcome(NoException, updated_process, Put(store, process_id, updated_process))

\* an update that builds the process anew, without its email and with
\* the time of the update as its creation time
InMemory_update_status_renewed(store, process_id, status, error_message, result_data) ==
    LET process == InMemory_get_by_id(store, process_id)
    IN  IF ~Truthy(process)
        THEN Outcome("ValidationProcessNotFoundError", None, store)
        ELSE LET updated_process ==
                     ValidationProcess(process.process_id, process.uuid_str, None,
                                       status, Now, Now, error_message, result_data)
             IN  Outcome(NoException, updated_process, Put(store, process_id, updated_process))

InMemory_update_status(store, process_id, status, error_message, result_data) ==
    LET process == InMemory_get_by_id(store, process_id)
    IN  IF ~Truthy(process)
        THEN Outcome("ValidationProcessNotFoundError", None, store)
        ELSE LET updated_process ==
                     ValidationProcess(process.process_id, process.uuid_str, process.email,
                                       status, process.created_at, Now,
                                       error_message, result_data)
             IN  Outcome(NoException, updated_process, Put(store, process_id, updated_process))

(***************************************************************************)
(* MongoValidationProcessRepository: the validation_processes collection   *)
(* holds one document per process.  Every method takes the fault of the    *)
(* call: "none", "before" (the driver raises before the write is applied)  *)
(* or "after" (the write is applied and the driver raises afterwards: a    *)
(* lost acknowledgement, or the read that follows the write fails).        *)
(***************************************************************************)
Faults == {"none", "before", "after"}

\* microseconds in a millisecond, on the scale of the model's clock
Millis == 2

\* a datetime as the collection stores it: BSON dates hold milliseconds
Bson(datetime) ==
    IF IsNone(datetime) THEN None ELSE PyDatetime(datetime.v - (datetime.v % Millis))

\* process_dict of create, as inserted
ProcessDict(process) ==
    [process_id |-> process.process_id,
     uuid_str |-> process.uuid_str,
     email |-> process.email,
     status |-> StatusValue(process.status),
     created_at |-> Bson(process.created_at),
     updated_at |-> Bson(process.updated_at),
     error_message |-> process.error_message,
     result_data |-> process.result_data]

\* the ValidationProcess built from a document by get_by_id and update_status
FromDoc(doc) ==
    ValidationProcess(doc.process_id, doc.uuid_str, doc.email, ValidationStatus(doc.status),
                      doc.created_at, doc.updated_at, doc.error_message, doc.result_data)

Mongo_create(store, uuid_str, email, fault) ==
    LET process_id == uuid4(DOMAIN store)
        process == ValidationProcess(process_id, uuid_str, email, PENDING, Now, None,
                                     None, None)
        inserted == Put(store, process_id, ProcessDict(process))
    IN  CASE fault = "before" -> Outcome("PyMongoError", None, store)
          [] fault = "after" -> Outcome("PyMongoError", None, inserted)
          [] OTHER -> Outcome(NoException, process, inserted)

\* an exception of the read is logged and None is returned
Mongo_get_by_id(store, process_id, fault) ==
    IF fault # "none" \/ process_id \notin DOMAIN store
    THEN None
    ELSE FromDoc(store[process_id])

\* an update_data without updated_at
SetUpdateDataUnstamped(doc, status, error_message, result_data) ==
    [doc EXCEPT !.status = StatusValue(status),
                !.error_message = IF IsNone(error_message) THEN @ ELSE error_message,
                !.result_data = IF IsNone(result_data) THEN @ ELSE result_data]

\* {"$set": update_data}: status and updated_at; error_message and
\* result_data are set only when given
SetUpdateData(doc, status, error_message, result_data) ==
    [doc EXCEPT !.status = StatusValue(status),
                !.updated_at = Bson(Now),
                !.error_message = IF IsNone(error_message) THEN @ ELSE error_message,
                !.result_data = IF IsNone(result_data) THEN @ ELSE result_data]

Mongo_update_status(store, process_id, status, error_message, result_data, fault) ==
    IF fault = "before"
    THEN Outcome("PyMongoError", None, store)
    ELSE IF process_id \notin DOMAIN store
    THEN Outcome("ValidationProcessNotFoundError", None, store)
    ELSE LET updated ==
                 [store EXCEPT ![process_id] =
                     SetUpdateData(@, status, error_message, result_data)]
         IN  IF fault = "after"
             THEN Outcome("PyMongoError", None, updated)
             ELSE Outcome(NoException, FromDoc(updated[process_id]), updated)

(***************************************************************************)
(* The process repository the service was wired to by                      *)
(* ValidationServiceFactory: "mongo" (create_mongo_service) or "memory"    *)
(* (create_hybrid_service).  The in-memory repository has no faults.       *)
(***************************************************************************)
Backends == {"memory", "mongo"}

FaultsOf(b) == IF b = "mongo" THEN Faults ELSE {"none"}

Repo_create(b, store, uuid_str, email, fault) ==
    IF b = "mongo"
    THEN Mongo_create(store, uuid_str, email, fault)
    ELSE InMemory_create(store, uuid_str, email)

Repo_get_by_id(b, store, process_id, fault) ==
    IF b = "mongo"
    THEN Mongo_get_by_id(store, process_id, fault)
    ELSE InMemory_get_by_id(store, process_id)

Repo_update_status(b, store, process_id, status, error_message, result_data, fault) ==
    IF b = "mongo"
    THEN Mongo_update_status(store, process_id, status, error_message, result_data, fault)
    ELSE InMemory_update_status(store, process_id, status, error_message, result_data)

(***************************************************************************)
(* The last operation carried out, as its caller and a spy on the          *)
(* repositories see it: the operation and its argument, how it ended       *)
(* ("returned" or the exception that reached the caller), the value        *)
(* returned, the repository calls it made in order, whether the record     *)
(* repository answered with a record, and the fault the call suffered      *)
(* ("lookup": the record lookup failed although a document is stored;      *)
(* otherwise the fault of its process repository call).                    *)
(***************************************************************************)
Event(op, arg, outcome, result, calls, found, fault) ==
    [op |-> op, arg |-> arg, outcome |-> outcome, result |-> result,
     calls |-> calls, found |-> found, fault |-> fault]

NoEvent == Event("", None, "", None, <<>>, FALSE, "none")

\* asyncio task of _perform_validation(process_id): where it stands, the
\* exception being handled, and its local variables
Task(pc, exc, process, enrollment_data) ==
    [pc |-> pc, exc |-> exc, process |-> process, enrollment_data |-> enrollment_data]

\* a scheduling that runs the coroutine to its end before it returns
create_task_eager(tks, process_id) == Put(tks, process_id, Task("done", NoException, None, None))

\* a scheduling that registers every coroutine under one key
create_task_unkeyed(tks, process_id) == Put(tks, 1, Task("scheduled", NoException, None, None))

\* a coroutine that is created and never handed to the event loop
create_task_lost(tks, process_id) == Put(tks, process_id, Task("lost", NoException, None, None))

\* asyncio.create_task(self._perform_validation(process_id))
create_task(tks, process_id) == Put(tks, process_id, Task("scheduled", NoException, None, None))

(***************************************************************************)
(* EnrollmentValidationService.initiate_validation.  The result holds the  *)
(* event the caller sees and the process store and tasks it leaves.        *)
(***************************************************************************)
Initiated(ev, store, tks) == [event |-> ev, store |-> store, tasks |-> tks]

\* the exception raised when the record lookup returns nothing (line 50)
LookupErrorWrapped == "ValidationServiceError"

LookupError == "EnrollmentNotFoundError"

\* an except block that reports a failing create as a missing record
CreateErrorNotFound == "EnrollmentNotFoundError"

\* the exception raised by the except block of lines 64-65
CreateError == "ValidationServiceError"

\* steps after the lookup succeeded: lines 52-65
InitiateCreate(b, store, tks, uuid_str, enrollment_data, cfault) ==
    LET email == DictGet(enrollment_data, "email", None)
        created == Repo_create(b, store, uuid_str, email, cfault)
        calls == <<"enrollment_repository.get_by_uuid", "process_repository.create">>
    IN  IF created.raised # NoException
        THEN Initiated(Event("initiate_validation", uuid_str, CreateError, None,
                             calls, TRUE, cfault),
                       created.store, tks)
        ELSE Initiated(Event("initiate_validation", uuid_str, "returned", created.value,
                             calls, TRUE, cfault),
                       created.store, create_task(tks, created.value.process_id))

initiate_validation(b, store, tks, uuid_str, rfault, cfault) ==
    LET fmt == _validate_uuid_format(uuid_str)
    IN  IF fmt.raised # NoException
        THEN Initiated(Event("initiate_validation", uuid_str, fmt.raised, None, <<>>, FALSE, "none"),
                       store, tks)
        ELSE IF ~fmt.value
        THEN Initiated(Event("initiate_validation", uuid_str, "InvalidUuidFormatError", None,
                             <<>>, FALSE, "none"),
                       store, tks)
        ELSE LET enrollment_data == get_by_uuid(uuid_str, rfault)
             IN  IF ~Truthy(enrollment_data)
                 THEN Initiated(Event("initiate_validation", uuid_str, LookupError, None,
                                      <<"enrollment_repository.get_by_uuid">>, FALSE,
                                      IF rfault THEN "lookup" ELSE "none"),
                                store, tks)
                 ELSE InitiateCreate(b, store, tks, uuid_str, enrollment_data, cfault)

(***************************************************************************)
(* EnrollmentValidationService.get_validation_status.                      *)
(***************************************************************************)
get_validation_status_strict(b, store, process_id, fault) ==
    LET process == Repo_get_by_id(b, store, process_id, fault)
    IN  IF IsNone(process)
        THEN Outcome("ValidationProcessNotFoundError", None, store)
        ELSE Outcome(NoException, process, store)

get_validation_status(b, store, process_id, fault) ==
    Outcome(NoException, Repo_get_by_id(b, store, process_id, fault), store)

(***************************************************************************)
(* EnrollmentValidationService._perform_validation, one step per           *)
(* repository write.  Each step yields the process store it leaves and     *)
(* the task's next position.                                               *)
(***************************************************************************)
Stepped(store, task) == [store |-> store, task |-> task]

\* len(x): TypeError unless x is sized
PyLenRaises(x) == x.t \notin {"list", "dict", "str"}

PyLen(x) == IF x.t = "dict" THEN Cardinality(DOMAIN x.v) ELSE Len(x.v)

\* x.get: AttributeError unless x is a dict
PyGetRaises(x) == x.t # "dict"

\* lines 105-117: the exception raised while result_data is assembled
ResultDataRaises(process, enrollment_data) ==
    LET students_info == DictGet(enrollment_data, "students_info", PyList(<<>>))
        verification == DictGet(enrollment_data, "verification", PyDict(<<>>))
    IN  CASE PyLenRaises(students_info) -> "TypeError"
          [] PyGetRaises(verification) -> "AttributeError"
          [] OTHER -> NoException

\* lines 105-117: result_data (validation_timestamp, the wall clock, left out)
ResultData(process, enrollment_data) ==
    LET students_info == DictGet(enrollment_data, "students_info", PyList(<<>>))
        verification == DictGet(enrollment_data, "verification", PyDict(<<>>))
    IN  PyDict([enrollment_validated |-> PyBool(TRUE),
                enrollment_uuid |-> process.uuid_str,
                email |-> DictGet(enrollment_data, "email", None),
                phone |-> DictGet(enrollment_data, "phone", None),
                students_count |-> PyInt(PyLen(students_info)),
                verification_status |-> DictGet(verification, "verified", PyBool(FALSE)),
                validation_notes |-> PyStr("Basic enrollment record validation completed")])

\* the status written by the except block (line 129)
ExceptStatusPending == PENDING

ExceptStatus == FAILED

\* lines 86-92, the two reads after the first write: get_by_id, and
\* get_by_uuid of the process's uuid_str
PerformFetch(b, store, task, process_id, fault, rfault) ==
    LET process == Repo_get_by_id(b, store, process_id, fault)
    IN  IF ~Truthy(process)
        THEN Stepped(store, [task EXCEPT !.pc = "done"])
        ELSE LET enrollment_data == get_by_uuid(process.uuid_str, rfault)
             IN  IF ~Truthy(enrollment_data)
                 THEN Stepped(store, [task EXCEPT !.pc = "not_found", !.process = process])
                 ELSE Stepped(store, [task EXCEPT !.pc = "sleeping", !.process = process,
                                                  !.enrollment_data = enrollment_data])

\* a start that goes on to the reads without marking the process
PerformStartUnmarked(b, store, task, process_id, fault, gfault, rfault) ==
    PerformFetch(b, store, task, process_id, gfault, rfault)

\* lines 80-92: update_status(process_id, IN_PROGRESS), then the two reads
PerformStart(b, store, task, process_id, fault, gfault, rfault) ==
    LET r == Repo_update_status(b, store, process_id, IN_PROGRESS, None, None, fault)
    IN  IF r.raised # NoException
        THEN Stepped(r.store, [task EXCEPT !.pc = "except", !.exc = r.raised])
        ELSE PerformFetch(b, r.store, task, process_id, gfault, rfault)

\* lines 93-98: update_status(process_id, FAILED, error_message=...); return
PerformNotFound(b, store, task, process_id, fault) ==
    LET r == Repo_update_status(b, store, process_id, FAILED,
                                PyStr("Enrollment not found during validation"), None, fault)
    IN  IF r.raised # NoException
        THEN Stepped(r.store, [task EXCEPT !.pc = "except", !.exc = r.raised])
        ELSE Stepped(r.store, [task EXCEPT !.pc = "done"])

\* lines 102-123: asyncio.sleep is over; result_data and update_status(COMPLETED)
PerformComplete(b, store, task, process_id, fault) ==
    LET raised == ResultDataRaises(task.process, task.enrollment_data)
    IN  IF raised # NoException
        THEN Stepped(store, [task EXCEPT !.pc = "except", !.exc = raised])
        ELSE LET r == Repo_update_status(b, store, process_id, COMPLETED, None,
                                         ResultData(task.process, task.enrollment_data), fault)
             IN  IF r.raised # NoException
                 THEN Stepped(r.store, [task EXCEPT !.pc = "except", !.exc = r.raised])
                 ELSE Stepped(r.store, [task EXCEPT !.pc = "done"])

\* lines 125-131: except Exception as e: update_status(FAILED, str(e)); an
\* exception of this call leaves the task
PerformExcept(b, store, task, process_id, fault) ==
    LET r == Repo_update_status(b, store, process_id, ExceptStatus,
                                ExcMessage(task.exc), None, fault)
    IN  IF r.raised # NoException
        THEN Stepped(r.store, [task EXCEPT !.pc = "escaped", !.exc = r.raised])
        ELSE Stepped(r.store, [task EXCEPT !.pc = "done"])

(***************************************************************************)
(* The service as a state machine.  processes is the process store of the  *)
(* backend in use (the _processes dict, or the validation_processes        *)
(* collection), tasks the asyncio tasks created so far, faults the number  *)
(* of repository calls that may still go wrong: a process repository call  *)
(* of the MongoDB backend that raises, or a record lookup that answers     *)
(* None although a document is stored.  clock is the reading of the wall   *)
(* clock; it stands still here and advances in SpecBoth, the one           *)
(* specification whose properties read the timestamps.                     *)
(***************************************************************************)
\* identifiers handed to initiate_validation
InitiateInputs ==
    {PyStr(UuidLower), PyStr(UuidUpper), PyStr(UuidFake), PyStr(UuidShort),
     PyStr(UuidNewline), None}

\* process identifiers handed to get_validation_status
StatusInputs == ProcIds \cup {UnknownProcId}

\* the faults a call may still suffer
MayFail == faults > 0

\* faults of a write of the process repository
WriteFaults == IF MayFail THEN FaultsOf(backend) ELSE {"none"}

\* faults of a read of the process repository
ReadFaults == WriteFaults \ {"after"}

\* faults of a lookup of uuid_str in the record repository
LookupFaults(uuid_str) ==
    IF MayFail /\ Truthy(FindOneEnrollment(uuid_str)) THEN BOOLEAN ELSE {FALSE}

Cost(fault) == IF fault = "none" THEN 0 ELSE 1

LookupCost(rfault) == IF rfault THEN 1 ELSE 0

Init ==
    /\ backend \in Backends
    /\ processes = <<>>
    /\ tasks = <<>>
    /\ event = NoEvent
    /\ faults = MaxFaults
    /\ clock = 0

\* the last operation was a call that suffered no fault and changed nothing
Observation(ev) ==
    /\ ev.fault = "none"
    /\ \/ ev.op = "get_validation_status"
       \/ (ev.op = "initiate_validation" /\ ev.outcome # "returned")

\* A call that changes nothing is taken from the states entered by a step
\* that changed something (and from the initial state): taken after
\* another such call it would reach the same states again.
AfterChange == ~Observation(event)

\* initiate_validation stopped by the format check: no repository is reached
InitiateRejected ==
    \E uuid_str \in InitiateInputs :
        /\ AfterChange
        /\ LET fmt == _validate_uuid_format(uuid_str)
           IN  fmt.raised # NoException \/ ~fmt.value
        /\ LET r == initiate_validation(backend, processes, tasks, uuid_str, FALSE, "none")
           IN  /\ processes' = r.store
               /\ tasks' = r.tasks
               /\ event' = r.event
        /\ UNCHANGED <<backend, faults, clock>>

\* initiate_validation past the format check; create is cut off once
\* MaxProcs identifiers are in use
InitiateValidation ==
    \E uuid_str \in InitiateInputs \ {None} :
        /\ _validate_uuid_format(uuid_str).value
        /\ \E rfault \in LookupFaults(uuid_str) :
              \E cfault \in IF Truthy(get_by_uuid(uuid_str, rfault))
                            THEN WriteFaults ELSE {"none"} :
                 /\ IF Truthy(get_by_uuid(uuid_str, rfault))
                    THEN DOMAIN processes # ProcIds
                    ELSE rfault \/ AfterChange
                 /\ LET r == initiate_validation(backend, processes, tasks, uuid_str,
                                                 rfault, cfault)
                    IN  /\ processes' = r.store
                        /\ tasks' = r.tasks
                        /\ event' = r.event
                 /\ faults' = faults - LookupCost(rfault) - Cost(cfault)
        /\ UNCHANGED <<backend, clock>>

GetValidationStatus ==
    \E process_id \in StatusInputs, fault \in ReadFaults :
        /\ fault = "none" => AfterChange
        /\ LET r == get_validation_status(backend, processes, process_id, fault)
           IN  /\ processes' = r.store
               /\ event' = Event("get_validation_status", process_id,
                                 IF r.raised = NoException THEN "returned" ELSE r.raised,
                                 r.value, <<"process_repository.get_by_id">>, FALSE, fault)
        /\ faults' = faults - Cost(fault)
        /\ UNCHANGED <<backend, tasks, clock>>

\* the event of a step of a background task
TaskEvent == Event("_perform_validation", None, "", None, <<>>, FALSE, "none")

TaskMoves(process_id, r) ==
    /\ processes' = r.store
    /\ tasks' = [tasks EXCEPT ![process_id] = r.task]
    /\ event' = TaskEvent
    /\ UNCHANGED <<backend, clock>>

\* the reads are reached only when the first write did not raise
TaskStart ==
    \E process_id \in DOMAIN tasks, fault \in WriteFaults :
        /\ tasks[process_id].pc = "scheduled"
        /\ \E gfault \in IF fault = "none" THEN ReadFaults ELSE {"none"} :
              \E rfault \in IF fault = "none" /\ gfault = "none"
                               /\ process_id \in DOMAIN processes
                            THEN LookupFaults(processes[process_id].uuid_str) ELSE {FALSE} :
                 /\ TaskMoves(process_id,
                              PerformStart(backend, processes, tasks[process_id], process_id,
                                           fault, gfault, rfault))
                 /\ faults' = faults - Cost(fault) - Cost(gfault) - LookupCost(rfault)

TaskNotFound ==
    \E process_id \in DOMAIN tasks, fault \in WriteFaults :
        /\ tasks[process_id].pc = "not_found"
        /\ TaskMoves(process_id,
                     PerformNotFound(backend, processes, tasks[process_id], process_id, fault))
        /\ faults' = faults - Cost(fault)

\* the write is reached only when result_data could be assembled
TaskComplete ==
    \E process_id \in DOMAIN tasks :
        /\ tasks[process_id].pc = "sleeping"
        /\ \E fault \in IF ResultDataRaises(tasks[process_id].process,
                                            tasks[process_id].enrollment_data) = NoException
                        THEN WriteFaults ELSE {"none"} :
              /\ TaskMoves(process_id,
                           PerformComplete(backend, processes, tasks[process_id], process_id,
                                           fault))
              /\ faults' = faults - Cost(fault)

TaskExcept ==
    \E process_id \in DOMAIN tasks, fault \in WriteFaults :
        /\ tasks[process_id].pc = "except"
        /\ TaskMoves(process_id,
                     PerformExcept(backend, processes, tasks[process_id], process_id, fault))
        /\ faults' = faults - Cost(fault)

Next ==
    \/ InitiateRejected
    \/ InitiateValidation
    \/ GetValidationStatus
    \/ TaskStart
    \/ TaskNotFound
    \/ TaskComplete
    \/ TaskExcept

Spec == Init /\ [][Next]_vars

(***************************************************************************)
(* The service on the in-memory process repository under a fair event      *)
(* loop.  asyncio runs every task that is ready: a task created by         *)
(* create_task is started, and a task suspended in asyncio.sleep(2) is     *)
(* resumed when its timer expires, whatever requests arrive meanwhile.     *)
(***************************************************************************)
InitLive == Init /\ backend = "memory"

\* each step of a background task that stays ready is eventually taken
EventLoopFairness ==
    /\ WF_vars(TaskStart)
    /\ WF_vars(TaskNotFound)
    /\ WF_vars(TaskComplete)
    /\ WF_vars(TaskExcept)

SpecLive == InitLive /\ [][Next]_vars /\ EventLoopFairness

(***************************************************************************)
(* The format predicate on its own: one call of _validate_uuid_format on   *)
(* an input drawn from the identifiers of the tests and their              *)
(* one-character edits.                                                    *)
(***************************************************************************)
Alphabet == {"0", "a", "F", "g", "Z", "-", "_", " ", "\n"}

ReplaceAt(s, i, c) == [s EXCEPT ![i] = c]

RemoveAt(s, i) == SubSeq(s, 1, i - 1) \o SubSeq(s, i + 1, Len(s))

InsertAt(s, i, c) == SubSeq(s, 1, i - 1) \o <<c>> \o SubSeq(s, i, Len(s))

\* all character sequences over Alphabet of length 1..n
RECURSIVE Runs(_)
Runs(n) ==
    IF n = 0 THEN {}
    ELSE {<<c>> : c \in Alphabet} \cup {r \o <<c>> : r \in Runs(n - 1), c \in Alphabet}

FormatStrings ==
    {UuidLower, UuidUpper, UuidFake, UuidShort, UuidNewline, <<>>}
        \cup {ReplaceAt(UuidLower, i, c) : i \in 1..Len(UuidLower), c \in Alphabet}
        \cup {RemoveAt(UuidLower, i) : i \in 1..Len(UuidLower)}
        \cup {InsertAt(UuidLower, i, c) : i \in 1..(Len(UuidLower) + 1), c \in Alphabet}
        \cup {UuidUpper \o r : r \in Runs(MaxExtra)}

FormatInputs == {PyStr(s) : s \in FormatStrings} \cup {None}

InitFormat ==
    /\ backend = "memory"
    /\ processes = <<>>
    /\ tasks = <<>>
    /\ event = NoEvent
    /\ faults = 0
    /\ clock = 0

ValidateUuidFormat ==
    \E uuid_str \in FormatInputs :
        /\ event = NoEvent
        /\ LET r == _validate_uuid_format(uuid_str)
           IN  event' = Event("_validate_uuid_format", uuid_str,
                              IF r.raised = NoException THEN "returned" ELSE r.raised,
                              IF r.raised = NoException THEN PyBool(r.value) ELSE None,
                              <<>>, FALSE, "none")
        /\ UNCHANGED <<backend, processes, tasks, faults, clock>>

NextFormat == ValidateUuidFormat

SpecFormat == InitFormat /\ [][NextFormat]_vars

(***************************************************************************)
(* One background task on its own: a single initiate_validation, the task  *)
(* it schedules and reads of the status, with up to MaxTaskFaults          *)
(* repository calls going wrong.                                           *)
(***************************************************************************)
InitTask ==
    /\ backend \in Backends
    /\ processes = <<>>
    /\ tasks = <<>>
    /\ event = NoEvent
    /\ faults = MaxTaskFaults
    /\ clock = 0

InitiateOnce == processes = <<>> /\ InitiateValidation

NextTask ==
    \/ InitiateOnce
    \/ GetValidationStatus
    \/ TaskStart
    \/ TaskNotFound
    \/ TaskComplete
    \/ TaskExcept

SpecTask == InitTask /\ [][NextTask]_vars

(***************************************************************************)
(* The same, with _perform_validation also run for an identifier the       *)
(* process repository does not know.                                       *)
(***************************************************************************)
\* _perform_validation(process_id) called with an unknown identifier
PerformUnknown ==
    /\ UnknownProcId \notin DOMAIN tasks
    /\ tasks' = create_task(tasks, UnknownProcId)
    /\ event' = TaskEvent
    /\ UNCHANGED <<backend, processes, faults, clock>>

NextUnknown ==
    \/ PerformUnknown
    \/ InitiateOnce
    \/ TaskStart
    \/ TaskNotFound
    \/ TaskComplete
    \/ TaskExcept

SpecUnknown == InitTask /\ [][NextUnknown]_vars

(***************************************************************************)
(* The record repository called directly (tests/test_database.py): one     *)
(* call of get_by_uuid, exists or get_all_uuids, whose access to the       *)
(* collection may raise.  calls lists the collection methods invoked.      *)
(***************************************************************************)
RecordInputs == {PyStr(s) : s \in FormatStrings}

InitRecords ==
    /\ backend = "mongo"
    /\ processes = <<>>
    /\ tasks = <<>>
    /\ event = NoEvent
    /\ faults = MaxFaults
    /\ clock = 0

RecordEvent(op, arg, result, calls, fault) ==
    Event(op, arg, "returned", result, calls, ~IsNone(FindOneEnrollment(arg)),
          IF fault THEN "lookup" ELSE "none")

RecordsGetByUuid ==
    /\ event = NoEvent
    /\ \E uuid_str \in RecordInputs, fault \in BOOLEAN :
          /\ fault => MayFail
          /\ event' = RecordEvent("get_by_uuid", uuid_str, get_by_uuid(uuid_str, fault),
                                  <<"find_one">>, fault)
          /\ faults' = faults - LookupCost(fault)
    /\ UNCHANGED <<backend, processes, tasks, clock>>

RecordsExists ==
    /\ event = NoEvent
    /\ \E uuid_str \in RecordInputs, fault \in BOOLEAN :
          /\ fault => MayFail
          /\ event' = RecordEvent("exists", uuid_str, exists(uuid_str, fault),
                                  <<"find_one">>, fault)
          /\ faults' = faults - LookupCost(fault)
    /\ UNCHANGED <<backend, processes, tasks, clock>>

RecordsGetAllUuids ==
    /\ event = NoEvent
    /\ \E fault \in BOOLEAN :
          /\ fault => MayFail
          /\ event' = RecordEvent("get_all_uuids", None, get_all_uuids(fault),
                                  <<"find">>, fault)
          /\ faults' = faults - LookupCost(fault)
    /\ UNCHANGED <<backend, processes, tasks, clock>>

NextRecords == RecordsGetByUuid \/ RecordsExists \/ RecordsGetAllUuids

SpecRecords == InitRecords /\ [][NextRecords]_vars

(***************************************************************************)
(* A process repository called directly (as the tests of the repositories  *)
(* and any other client may): create, get_by_id and update_status with     *)
(* arbitrary arguments, on either implementation.                          *)
(***************************************************************************)
\* number of processes created in the repository
MaxRepoProcs == 1

Statuses == {PENDING, IN_PROGRESS, COMPLETED, FAILED}

\* process identifiers handed to the repository
RepoInputs == (1..MaxRepoProcs) \cup {UnknownProcId}

\* error_message and result_data arguments
ErrorMessages == {None, PyStr("boom")}

ResultPayloads == {None, PyDict([enrollment_validated |-> PyBool(TRUE)])}

CallOutcome(r) == IF r.raised = NoException THEN "returned" ELSE r.raised

InitRepo ==
    /\ backend \in Backends
    /\ processes = <<>>
    /\ tasks = <<>>
    /\ event = NoEvent
    /\ faults = MaxFaults
    /\ clock = 0

RepoCreate ==
    \E fault \in WriteFaults :
        /\ Cardinality(DOMAIN processes) < MaxRepoProcs
        /\ LET r == Repo_create(backend, processes, PyStr(UuidLower), PyStr("a@example.com"), fault)
           IN  /\ processes' = r.store
               /\ event' = Event("create", PyStr(UuidLower), CallOutcome(r), r.value,
                                 <<>>, FALSE, fault)
        /\ faults' = faults - Cost(fault)
        /\ UNCHANGED <<backend, tasks, clock>>

RepoGetById ==
    \E process_id \in RepoInputs, fault \in ReadFaults :
        /\ LET value == Repo_get_by_id(backend, processes, process_id, fault)
           IN  event' = Event("get_by_id", process_id, "returned", value, <<>>,
                              ~IsNone(value), fault)
        /\ faults' = faults - Cost(fault)
        /\ UNCHANGED <<backend, processes, tasks, clock>>

\* the write is reached ("after") only for a stored identifier
RepoUpdateStatus ==
    \E process_id \in RepoInputs, status \in Statuses,
       error_message \in ErrorMessages, result_data \in ResultPayloads :
        \E fault \in IF process_id \in DOMAIN processes
                      THEN WriteFaults ELSE WriteFaults \ {"after"} :
            /\ LET r == Repo_update_status(backend, processes, process_id, status,
                                           error_message, result_data, fault)
               IN  /\ processes' = r.store
                   /\ event' = Event("update_status",
                                     [process_id |-> process_id, status |-> status],
                                     CallOutcome(r), r.value, <<>>,
                                     process_id \in DOMAIN processes, fault)
            /\ faults' = faults - Cost(fault)
            /\ UNCHANGED <<backend, tasks, clock>>

NextRepo ==
    \/ RepoCreate
    \/ RepoGetById
    \/ RepoUpdateStatus

SpecRepo == InitRepo /\ [][NextRepo]_vars

(***************************************************************************)
(* Object identity.  A repository hands Python objects of class            *)
(* ValidationProcess to its callers.  objects[ref] is the state of the     *)
(* object ref; entries is self._processes (in-memory: process_id -> ref)   *)
(* or the validation_processes collection (MongoDB: process_id ->          *)
(* document); held are the objects returned by create and get_by_id, the   *)
(* snapshots that initiate_validation and get_validation_status pass on    *)
(* to their callers.                                                       *)
(***************************************************************************)
\* number of ValidationProcess objects built
MaxObjects == 3

\* the repository as the methods of the repositories above take it
HeapStore(h, b) ==
    IF b = "mongo"
    THEN h.entries
    ELSE [process_id \in DOMAIN h.entries |-> h.objects[h.entries[process_id]]]

\* an update that assigns the new state to the object already stored
StoredInPlace(h, b, r, snapshot) ==
    IF r.raised # NoException
    THEN h
    ELSE IF b = "mongo"
    THEN [objects |-> Append(h.objects, r.value), entries |-> r.store, held |-> h.held]
    ELSE IF r.value.process_id \in DOMAIN h.entries
    THEN [h EXCEPT !.objects[h.entries[r.value.process_id]] = r.value]
    ELSE [objects |-> Append(h.objects, r.value),
          entries |-> Put(h.entries, r.value.process_id, Len(h.objects) + 1),
          held |-> h.held \cup {Len(h.objects) + 1}]

\* create and update_status with outcome r: ValidationProcess(...) builds a
\* new object; the in-memory repository binds self._processes[process_id]
\* to it, the MongoDB repository writes a document.  snapshot: the object
\* is returned by create
Stored(h, b, r, snapshot) ==
    IF r.raised # NoException
    THEN h
    ELSE LET ref == Len(h.objects) + 1
         IN  [objects |-> Append(h.objects, r.value),
              entries |-> IF b = "mongo" THEN r.store
                          ELSE Put(h.entries, r.value.process_id, ref),
              held |-> IF snapshot THEN h.held \cup {ref} ELSE h.held]

\* get_by_id: self._processes.get(process_id) returns the stored object
\* itself; the MongoDB repository builds an object from the document
Fetched(h, b, process_id, value) ==
    IF IsNone(value)
    THEN h
    ELSE IF b = "mongo"
    THEN [h EXCEPT !.objects = Append(@, value), !.held = @ \cup {Len(h.objects) + 1}]
    ELSE [h EXCEPT !.held = @ \cup {h.entries[process_id]}]

InitHeap ==
    /\ backend \in Backends
    /\ processes = [objects |-> <<>>, entries |-> <<>>, held |-> {}]
    /\ tasks = <<>>
    /\ event = NoEvent
    /\ faults = 0
    /\ clock = 0

HeapCreate ==
    /\ Len(processes.objects) < MaxObjects
    /\ Cardinality(DOMAIN processes.entries) < MaxRepoProcs
    /\ \E email \in {None, PyStr("a@example.com")} :
          LET r == Repo_create(backend, HeapStore(processes, backend), PyStr(UuidLower),
                               email, "none")
          IN  /\ processes' = Stored(processes, backend, r, TRUE)
              /\ event' = Event("create", PyStr(UuidLower), CallOutcome(r), r.value,
                                <<>>, FALSE, "none")
    /\ UNCHANGED <<backend, tasks, faults, clock>>

HeapGetById ==
    /\ backend = "mongo" => Len(processes.objects) < MaxObjects
    /\ \E process_id \in RepoInputs :
          LET value == Repo_get_by_id(backend, HeapStore(processes, backend), process_id,
                                      "none")
          IN  /\ processes' = Fetched(processes, backend, process_id, value)
              /\ event' = Event("get_by_id", process_id, "returned", value, <<>>,
                                ~IsNone(value), "none")
    /\ UNCHANGED <<backend, tasks, faults, clock>>

HeapUpdateStatus ==
    /\ Len(processes.objects) < MaxObjects
    /\ \E process_id \in RepoInputs, status \in Statuses,
          error_message \in ErrorMessages, result_data \in ResultPayloads :
          LET r == Repo_update_status(backend, HeapStore(processes, backend), process_id,
                                      status, error_message, result_data, "none")
          IN  /\ processes' = Stored(processes, backend, r, FALSE)
              /\ event' = Event("update_status",
                                [process_id |-> process_id, status |-> status],
                                CallOutcome(r), r.value, <<>>,
                                process_id \in DOMAIN processes.entries, "none")
    /\ UNCHANGED <<backend, tasks, faults, clock>>

NextHeap == HeapCreate \/ HeapGetById \/ HeapUpdateStatus

SpecHeap == InitHeap /\ [][NextHeap]_vars

(***************************************************************************)
(* The two process repositories side by side: every call is made on the    *)
(* in-memory and on the MongoDB repository with the same arguments, no     *)
(* call of the MongoDB driver fails, and the wall clock advances between   *)
(* calls.  processes holds the store of each; one process is created.      *)
(***************************************************************************)
\* what the caller of a repository method sees
Seen(r) == [raised |-> r.raised, value |-> r.value]

InitBoth ==
    /\ backend = "both"
    /\ processes = [memory |-> <<>>, mongo |-> <<>>]
    /\ tasks = <<>>
    /\ event = NoEvent
    /\ faults = 0
    /\ clock = 0

\* the same call made on both repositories
BothCalled(op, arg, memory, mongo) ==
    /\ processes' = [memory |-> memory.store, mongo |-> mongo.store]
    /\ event' = Event(op, arg, "", [memory |-> Seen(memory), mongo |-> Seen(mongo)],
                      <<>>, FALSE, "none")

BothCreate ==
    \E email \in {None, PyStr("a@example.com")} :
        /\ processes.memory = <<>>
        /\ BothCalled("create", email,
                      InMemory_create(processes.memory, PyStr(UuidLower), email),
                      Mongo_create(processes.mongo, PyStr(UuidLower), email, "none"))
        /\ UNCHANGED <<backend, tasks, faults, clock>>

BothGetById ==
    \E process_id \in {1, UnknownProcId} :
        /\ BothCalled("get_by_id", process_id,
                      Outcome(NoException, InMemory_get_by_id(processes.memory, process_id),
                              processes.memory),
                      Outcome(NoException, Mongo_get_by_id(processes.mongo, process_id, "none"),
                              processes.mongo))
        /\ UNCHANGED <<backend, tasks, faults, clock>>

BothUpdateStatus ==
    \E process_id \in {1, UnknownProcId}, status \in Statuses,
       error_message \in ErrorMessages, result_data \in ResultPayloads :
        /\ BothCalled("update_status", [process_id |-> process_id, status |-> status],
                      InMemory_update_status(processes.memory, process_id, status,
                                             error_message, result_data),
                      Mongo_update_status(processes.mongo, process_id, status,
                                          error_message, result_data, "none"))
        /\ UNCHANGED <<backend, tasks, faults, clock>>

\* time passes
Tick ==
    /\ clock < MaxClock
    /\ clock' = clock + 1
    /\ UNCHANGED <<backend, processes, tasks, event, faults>>

NextBoth ==
    \/ BothCreate
    \/ BothGetById
    \/ BothUpdateStatus
    \/ Tick

SpecBoth == InitBoth /\ [][NextBoth]_vars

(***************************************************************************)
(* Startup: api/main.py lifespan and ValidationServiceFactory.  A factory  *)
(* method takes the point at which its construction throws: "none", the    *)
(* construction of the record repository, or that of the process           *)
(* repository.  backend = "none" says that validation_service is None.     *)
(***************************************************************************)
EnrollmentValidationService(enrollment_repository, process_repository) ==
    [t |-> "EnrollmentValidationService",
     enrollment_repository |-> enrollment_repository,
     process_repository |-> process_repository]

MongoThrows == {"none", "enrollment_repository", "process_repository"}

\* InMemoryValidationProcessRepository() only creates an empty dict
HybridThrows == {"none", "enrollment_repository"}

create_mongo_service(throw) ==
    IF throw # "none"
    THEN [raised |-> "Exception", value |-> None]
    ELSE [raised |-> NoException,
          value |-> EnrollmentValidationService("MongoEnrollmentRepository",
                                                "MongoValidationProcessRepository")]

\* a fallback that builds the durable process repository again
create_hybrid_service_durable(throw) == create_mongo_service(throw)

create_hybrid_service(throw) ==
    IF throw # "none"
    THEN [raised |-> "Exception", value |-> None]
    ELSE [raised |-> NoException,
          value |-> EnrollmentValidationService("MongoEnrollmentRepository",
                                                "InMemoryValidationProcessRepository")]

\* what lifespan leaves: the exception it raises, validation_service, and
\* the factory methods it called
Started(raised, validation_service, calls) ==
    [raised |-> raised, validation_service |-> validation_service, calls |-> calls]

\* a startup with a third tier: an in-memory service when both throw
lifespan_third_tier(mthrow, hthrow) ==
    Started(NoException,
            EnrollmentValidationService("InMemoryEnrollmentRepository",
                                        "InMemoryValidationProcessRepository"),
            <<"create_mongo_service", "create_hybrid_service", "create_memory_service">>)

\* lifespan up to its yield
lifespan(mthrow, hthrow) ==
    LET first == create_mongo_service(mthrow)
        second == create_hybrid_service(hthrow)
    IN  IF first.raised = NoException
        THEN Started(NoException, first.value, <<"create_mongo_service">>)
        ELSE IF second.raised = NoException
        THEN Started(NoException, second.value,
                     <<"create_mongo_service", "create_hybrid_service">>)
        ELSE Started("RuntimeError", None,
                     <<"create_mongo_service", "create_hybrid_service">>)

\* the process repository of the installed service
BackendOf(validation_service) ==
    CASE IsNone(validation_service) -> "none"
      [] validation_service.process_repository = "MongoValidationProcessRepository" -> "mongo"
      [] OTHER -> "memory"

InitStartup ==
    /\ backend = "none"
    /\ processes = <<>>
    /\ tasks = <<>>
    /\ event = NoEvent
    /\ faults = MaxFaults
    /\ clock = 0

\* the fallback is reached only when the first construction threw.
\* reachable: whether the MongoDB server answers while lifespan runs.  The
\* constructors of both Mongo repositories only call
\* DatabaseConnection.get_instance(), whose __init__ reads MONGODB_URI and
\* DB_NAME (api/database.py 16-29); connect() and its ping are first called
\* by get_collection, inside a repository method, so what a constructor
\* throws does not depend on reachable.  fault records an unreachable server.
Lifespan ==
    \E reachable \in BOOLEAN, mthrow \in MongoThrows :
        \E hthrow \in IF mthrow = "none" THEN {"none"} ELSE HybridThrows :
            /\ backend = "none"
            /\ event = NoEvent
            /\ LET r == lifespan(mthrow, hthrow)
               IN  /\ backend' = BackendOf(r.validation_service)
                   /\ event' = Event("lifespan", [mongo |-> mthrow, hybrid |-> hthrow],
                                     IF r.raised = NoException THEN "started" ELSE r.raised,
                                     r.validation_service, r.calls, FALSE,
                                     IF reachable THEN "none" ELSE "unreachable")
            /\ UNCHANGED <<processes, tasks, faults, clock>>

\* requests are served by the installed service
Serve == backend \in Backends /\ NextTask

NextStartup ==
    \/ Lifespan
    \/ Serve

SpecStartup == InitStartup /\ [][NextStartup]_vars

(***************************************************************************)
(* The comparator: spike/document_mongodb_tools.py compare_student_data    *)
(* and spike/student_mongodb_tools.py get_student_by_id.  Strings that     *)
(* are compared are sequences of one-character strings.                    *)
(***************************************************************************)
\* most fields an extracted map holds
MaxFields == 2

\* a dict given by its items <<key, value>> in insertion order
PyItems(items) == [t |-> "dict", items |-> items]

\* str.strip(): leading and trailing whitespace removed
RECURSIVE PyStrip(_)
PyStrip(s) ==
    LET Whitespace == {" ", "\t", "\n", "\r"}
    IN  IF s # <<>> /\ Head(s) \in Whitespace THEN PyStrip(Tail(s))
        ELSE IF s # <<>> /\ s[Len(s)] \in Whitespace THEN PyStrip(SubSeq(s, 1, Len(s) - 1))
        ELSE s

\* str.lower() on ASCII letters
PyLower(s) ==
    LET Upper == <<"A", "B", "C", "D", "E", "F", "G", "H", "I", "J", "K", "L", "M",
                   "N", "O", "P", "Q", "R", "S", "T", "U", "V", "W", "X", "Y", "Z">>
        Lower == <<"a", "b", "c", "d", "e", "f", "g", "h", "i", "j", "k", "l", "m",
                   "n", "o", "p", "q", "r", "s", "t", "u", "v", "w", "x", "y", "z">>
        LowerChar(c) ==
            IF \E i \in 1..26 : Upper[i] = c
            THEN Lower[CHOOSE i \in 1..26 : Upper[i] = c]
            ELSE c
    IN  [i \in 1..Len(s) |-> LowerChar(s[i])]

\* a == b of Python: bool is a subclass of int, so True == 1 and
\* False == 0; values of unrelated types are unequal.  Nested dicts and
\* lists hold strings only.
PyEq(a, b) ==
    LET IsNumber(x) == x.t \in {"int", "bool"}
        NumValue(x) == IF x.t = "bool" THEN (IF x.v THEN 1 ELSE 0) ELSE x.v
    IN  IF IsNumber(a) /\ IsNumber(b)
        THEN NumValue(a) = NumValue(b)
        ELSE a.t = b.t /\ a = b

\* lines 61-74: the record built from the parent document and a student;
\* FmtStr(x) is f"{x}" for a string or None
StudentRecord(student_id, parent_doc, student) ==
    LET Empty == PyStr(<<>>)
        FmtStr(x) == IF IsNone(x) THEN <<"N", "o", "n", "e">> ELSE x.v
        first_name == DictGet(student, "first_name", Empty)
        last_name == DictGet(student, "last_name", Empty)
        application_info == DictGet(student, "application_info", PyDict(<<>>))
    IN  PyDict([student_id |-> student_id,
                first_name |-> first_name,
                last_name |-> last_name,
                name |-> PyStr(PyStrip(FmtStr(first_name) \o <<" ">> \o FmtStr(last_name))),
                email |-> DictGet(parent_doc, "email", Empty),
                phone |-> DictGet(parent_doc, "phone", Empty),
                birthdate |-> DictGet(student, "birthdate", Empty),
                gender |-> DictGet(student, "gender", Empty),
                address |-> DictGet(student, "address", PyDict(<<>>)),
                applying_grade |-> DictGet(application_info, "applyingGrade", Empty),
                documents |-> DictGet(student, "documents", PyDict(<<>>)),
                parent_doc_id |-> PyStr(FmtStr(DictGet(parent_doc, "_id", Empty)))])

\* get_student_by_id: the record of the first student of the document; an
\* exception (fault: the collection access raised; students_info that is
\* no list, a student or an application_info that is no dict) is printed
\* and None is returned
get_student_by_id(student_id, fault) ==
    LET parent_doc == FindOneEnrollment(student_id)
    IN  IF fault \/ ~Truthy(parent_doc) \/ "students_info" \notin DOMAIN parent_doc.v
        THEN None
        ELSE LET students_info == parent_doc.v["students_info"]
             IN  IF students_info.t # "list" \/ students_info.v = <<>>
                 THEN None
                 ELSE IF students_info.v[1].t # "dict"
                         \/ DictGet(students_info.v[1], "application_info", PyDict(<<>>)).t # "dict"
                 THEN None
                 ELSE StudentRecord(student_id, parent_doc, students_info.v[1])

\* a test that takes an empty canonical value for a missing one
IsComparedTruthy(db_value) == Truthy(db_value) /\ db_value # PyStr(<<>>)

\* line 205: db_value is not None
IsCompared(db_value) == ~IsNone(db_value)

\* an anomaly that reports the values as they were compared
AnomalyNormalized(key, db_value, cert_value, db_val_norm, cert_val_norm) ==
    [field |-> key, mongodb_value |-> db_val_norm, certificate_value |-> cert_val_norm,
     type |-> "mismatch"]

\* lines 214-219
Anomaly(key, db_value, cert_value, db_val_norm, cert_val_norm) ==
    [field |-> key, mongodb_value |-> db_value, certificate_value |-> cert_value,
     type |-> "mismatch"]

\* lines 203-227: the loop over extracted_data.items(), acc holding
\* anomalies, matches and additional_info
RECURSIVE CompareItems(_, _, _)
CompareItems(mongodb_record, items, acc) ==
    IF items = <<>>
    THEN acc
    ELSE LET key == Head(items)[1]
             cert_value == Head(items)[2]
             db_value == DictGet(mongodb_record, key, None)
             strings == cert_value.t = "str" /\ db_value.t = "str"
             cert_val_norm ==
                 IF strings THEN PyStr(PyLower(PyStrip(cert_value.v))) ELSE cert_value
             db_val_norm ==
                 IF strings THEN PyStr(PyLower(PyStrip(db_value.v))) ELSE db_value
             next ==
                 IF IsCompared(db_value)
                 THEN IF ~PyEq(cert_val_norm, db_val_norm)
                      THEN [acc EXCEPT !.anomalies =
                                Append(@, Anomaly(key, db_value, cert_value,
                                                  db_val_norm, cert_val_norm))]
                      ELSE [acc EXCEPT !.matches =
                                Append(@, [field |-> key, value |-> db_value])]
                 ELSE [acc EXCEPT !.additional_info = Put(@, key, cert_value)]
         IN  CompareItems(mongodb_record, Tail(items), next)

\* a result for a missing record that reports success with nothing compared
NotFoundAsSuccess(student_id) ==
    [status |-> "success", matches |-> <<>>, anomalies |-> <<>>, additional_info |-> <<>>,
     total_anomalies |-> 0]

\* lines 193-196; the message is the parts of the f-string
NotFound(student_id) ==
    [status |-> "error",
     message |-> <<"Student ID ", student_id, " not found in MongoDB">>]

\* a call that empties the dict it was handed
ComparedConsuming(raised, value, collection, extracted_data) ==
    [raised |-> raised, value |-> value, collection |-> collection,
     extracted_data |-> PyItems(<<>>)]

\* what a call of compare_student_data leaves: the exception raised (or
\* none), the value returned, the enrollmentForm collection and the
\* caller's extracted_data after the call
Compared(raised, value, collection, extracted_data) ==
    [raised |-> raised, value |-> value, collection |-> collection,
     extracted_data |-> extracted_data]

\* compare_student_data; extracted_data.items() raises AttributeError when
\* extracted_data is None
compare_student_data(student_id, extracted_data, fault) ==
    LET mongodb_record == get_student_by_id(student_id, fault)
    IN  IF IsNone(mongodb_record)
        THEN Compared(NoException, NotFound(student_id), EnrollmentCollection, extracted_data)
        ELSE IF IsNone(extracted_data)
        THEN Compared("AttributeError", None, EnrollmentCollection, extracted_data)
        ELSE LET acc == CompareItems(mongodb_record, extracted_data.items,
                                     [anomalies |-> <<>>, matches |-> <<>>,
                                      additional_info |-> <<>>])
             IN  Compared(NoException,
                          [status |-> "success",
                           mongodb_record |-> mongodb_record,
                           certificate_data |-> extracted_data,
                           matches |-> acc.matches,
                           anomalies |-> acc.anomalies,
                           additional_info |-> acc.additional_info,
                           total_anomalies |-> Len(acc.anomalies)],
                          EnrollmentCollection, extracted_data)

(***************************************************************************)
(* The comparator on its own: a call with a student id and an extracted    *)
(* map of up to MaxFields fields, then repetitions of that call.  At most  *)
(* MaxFaults lookups fail.                                                 *)
(***************************************************************************)
\* the sequences of up to n items.  The field names are those of a
\* string, a number, a null and an empty field of the record, and one the
\* record does not have.
RECURSIVE ItemSeqs(_)
ItemSeqs(n) ==
    LET ExtractedKeys == {"first_name", "applying_grade", "birthdate", "gender", "middle_name"}
        ExtractedValues ==
            {PyStr(<<" ", "J", "A", "N", "E", " ">>), PyStr(<<"J", "o", "h", "n">>),
             PyStr(<<"1">>), PyInt(1), PyBool(TRUE), None}
    IN  IF n = 0 THEN {<<>>}
        ELSE LET shorter == ItemSeqs(n - 1)
             IN  shorter \cup
                 {Append(items, <<key, value>>) :
                     items \in {s \in shorter : Len(s) = n - 1},
                     key \in ExtractedKeys, value \in ExtractedValues}

\* the extracted maps of up to MaxFields fields: a dict has no key twice
ExtractedMaps ==
    LET DistinctKeys(items) ==
            \A i, j \in 1..Len(items) : items[i][1] = items[j][1] => i = j
    IN  {PyItems(items) : items \in {s \in ItemSeqs(MaxFields) : DistinctKeys(s)}}

StudentIds == {PyStr(UuidLower), PyStr(UuidUpper), PyStr(UuidFake)}

\* calls: the lookups made by this call and the one before it
CompareEvent(student_id, extracted_data, fault, calls) ==
    LET r == compare_student_data(student_id, extracted_data, fault)
    IN  Event("compare_student_data",
              [student_id |-> student_id, extracted_data |-> extracted_data],
              IF r.raised = NoException THEN "returned" ELSE r.raised,
              r, Append(calls, "get_student_by_id"),
              ~IsNone(get_student_by_id(student_id, fault)),
              IF fault THEN "lookup" ELSE "none")

InitCompare ==
    /\ backend = "mongo"
    /\ processes = <<>>
    /\ tasks = <<>>
    /\ event = NoEvent
    /\ faults = MaxFaults
    /\ clock = 0

\* the first call
CompareStudentData ==
    /\ event = NoEvent
    /\ \E student_id \in StudentIds, extracted_data \in ExtractedMaps \cup {None} :
          \E fault \in LookupFaults(student_id) :
             /\ event' = CompareEvent(student_id, extracted_data, fault, <<>>)
             /\ faults' = faults - LookupCost(fault)
    /\ UNCHANGED <<backend, processes, tasks, clock>>

\* the same call once more
CompareAgain ==
    /\ event.op = "compare_student_data"
    /\ Len(event.calls) = 1
    /\ \E fault \in LookupFaults(event.arg.student_id) :
        /\ event' = CompareEvent(event.arg.student_id, event.arg.extracted_data, fault,
                                 event.calls)
        /\ faults' = faults - LookupCost(fault)
    /\ UNCHANGED <<backend, processes, tasks, clock>>

NextCompare == CompareStudentData \/ CompareAgain

SpecCompare == InitCompare /\ [][NextCompare]_vars

(***************************************************************************)
(* The validation agent's session (spike/enhanced_validation_agent.py).    *)
(* The tools process_birth_certificate and approve_mongodb_updates share   *)
(* an EnhancedValidationContext.  The data extracted from the certificate  *)
(* image is an input of the model.  processes holds the context and the    *)
(* writes made to the enrollmentForm collection; the collection itself is  *)
(* fixed in the model, so a session is followed up to its first write and  *)
(* through the approvals after it.                                         *)
(***************************************************************************)
EnhancedValidationContext(last_student_id, pending_updates, document_data) ==
    [last_student_id |-> last_student_id, pending_updates |-> pending_updates,
     document_data |-> document_data]

\* the tools return a string; kind says which one
ToolResult(context, kind, applied) == [context |-> context, kind |-> kind, applied |-> applied]

\* lines 163-173: context.pending_updates = {} and one entry per anomaly
RECURSIVE PendingUpdates(_, _)
PendingUpdates(anomalies, acc) ==
    IF anomalies = <<>>
    THEN PyDict(acc)
    ELSE PendingUpdates(Tail(anomalies),
                        Put(acc, Head(anomalies).field, Head(anomalies).certificate_value))

\* lines 133-177 once the comparison succeeded: last_student_id and
\* document_data are assigned; pending_updates is assigned only inside
\* `if comparison_result["anomalies"]:`
Processed(context, student_id, extracted_data, anomalies) ==
    ToolResult(EnhancedValidationContext(student_id,
                                         IF anomalies # <<>>
                                         THEN PendingUpdates(anomalies, <<>>)
                                         ELSE context.pending_updates,
                                         extracted_data),
               IF anomalies # <<>> THEN "anomalies" ELSE "no anomalies", None)

\* process_birth_certificate for a student id of UUID format (and
\* process_birth_certificate_by_url, lines 250-346, whose code from the
\* extraction on is the same); an exception is caught and reported
process_birth_certificate(context, student_id, extracted_data, fault) ==
    LET r == compare_student_data(student_id, extracted_data, fault)
    IN  IF r.raised # NoException
        THEN ToolResult(context, "Error processing birth certificate", None)
        ELSE IF r.value.status = "error"
        THEN ToolResult(context, "not found", None)
        ELSE Processed(context, student_id, extracted_data, r.value.anomalies)

\* student_mongodb_tools.update_student (called by update_mongodb_record):
\* the $set of the fields it recognises, on the first student of the
\* document of student_id.  No certificate of the model has the key name.
update_student(student_id, updates, fault) ==
    LET parent_doc == FindOneEnrollment(student_id)
        parent_fields == {"email", "phone"}
        student_fields ==
            {"first_name", "last_name", "birthdate", "gender", "address",
             "has_mailing_address", "mailing_address", "info_status", "step_completed",
             "created_at", "updated_at", "application_info", "medical_info",
             "care_giver_info", "special_assistance_info", "documents"}
        fields == DOMAIN updates.v \cap (parent_fields \cup student_fields)
    IN  IF fault \/ ~Truthy(parent_doc) \/ "students_info" \notin DOMAIN parent_doc.v
        THEN [status |-> "error", set |-> <<>>]
        ELSE LET students == parent_doc.v.students_info
             IN  IF students.t # "list" \/ students.v = <<>>
                 THEN [status |-> "error", set |-> <<>>]
                 ELSE IF "id" \notin DOMAIN students.v[1].v
                 THEN [status |-> "error", set |-> <<>>]
                 ELSE [status |-> "success", set |-> [f \in fields |-> updates.v[f]]]

\* approve_mongodb_updates: pdb.set_trace() (line 202) stops in the
\* debugger and the call goes on when the operator continues.  applied is
\* what update_mongodb_record was called with, and what it wrote
approve_mongodb_updates(context, fault) ==
    IF ~Truthy(context.pending_updates) \/ ~Truthy(context.last_student_id)
    THEN ToolResult(context, "No pending updates to apply", None)
    ELSE LET result == update_student(context.last_student_id, context.pending_updates,
                                      fault)
             applied == [t |-> "call", student_id |-> context.last_student_id,
                         updates |-> context.pending_updates, set |-> result.set]
         IN  IF result.status = "success"
             THEN ToolResult([context EXCEPT !.pending_updates = None], "successful", applied)
             ELSE ToolResult(context, "Update failed", applied)

InitSession ==
    /\ backend = "mongo"
    /\ processes = [context |-> EnhancedValidationContext(None, None, None), writes |-> <<>>]
    /\ tasks = <<>>
    /\ event = NoEvent
    /\ faults = MaxFaults
    /\ clock = 0

\* the students of the session are two with a record and one without; the
\* data read from a certificate is one of four maps, or None
ProcessBirthCertificate ==
    LET SessionStudents == {PyStr(UuidLower), PyStr(UuidSibling), PyStr(UuidFake)}
        CertificateData ==
            {PyItems(<<<<"first_name", PyStr(<<" ", "J", "A", "N", "E", " ">>)>>>>),
             PyItems(<<<<"first_name", PyStr(<<"J", "o", "h", "n">>)>>>>),
             PyItems(<<<<"first_name", PyStr(<<"J", "o", "h", "n">>)>>,
                       <<"last_name", PyStr(<<"R", "o", "e">>)>>>>),
             PyItems(<<<<"applying_grade", PyInt(2)>>>>)}
    IN  /\ processes.writes = <<>>
        /\ \E student_id \in SessionStudents, extracted_data \in CertificateData \cup {None} :
              \E fault \in LookupFaults(student_id) :
                 LET r == process_birth_certificate(processes.context, student_id,
                                                    extracted_data, fault)
                 IN  /\ processes' = [processes EXCEPT !.context = r.context]
                     /\ event' = Event("process_birth_certificate", student_id, r.kind, None,
                                       <<"compare_student_data">>, FALSE,
                                       IF fault THEN "lookup" ELSE "none")
                     /\ faults' = faults - LookupCost(fault)
        /\ UNCHANGED <<backend, tasks, clock>>

ApproveMongodbUpdates ==
    /\ \E fault \in IF MayFail THEN BOOLEAN ELSE {FALSE} :
          LET r == approve_mongodb_updates(processes.context, fault)
              called == ~IsNone(r.applied)
          IN  /\ fault => called
              /\ processes' = [context |-> r.context,
                               writes |-> IF called /\ DOMAIN r.applied.set # {}
                                          THEN Append(processes.writes, r.applied)
                                          ELSE processes.writes]
              /\ event' = Event("approve_mongodb_updates", None, r.kind, r.applied,
                                IF called THEN <<"update_mongodb_record">> ELSE <<>>,
                                FALSE, IF fault THEN "update" ELSE "none")
              /\ faults' = faults - LookupCost(fault)
    /\ UNCHANGED <<backend, tasks, clock>>

NextSession == ProcessBirthCertificate \/ ApproveMongodbUpdates

SpecSession == InitSession /\ [][NextSession]_vars

(***************************************************************************)
(* Vocabulary of the properties.                                           *)
(***************************************************************************)
\* the snapshot of process_id held by store, as a fault-free get_by_id
\* returns it
SnapshotIn(store, process_id) == Repo_get_by_id(backend, store, process_id, "none")

Snapshot(process_id) == SnapshotIn(processes, process_id)

Terminal == {COMPLETED, FAILED}

\* the identifier shape of the specification: exactly 36 characters,
\* 8-4-4-4-12 hexadecimal digits of either case separated by hyphens
IsHexDigit(c) ==
    c \in {"0", "1", "2", "3", "4", "5", "6", "7", "8", "9",
           "a", "b", "c", "d", "e", "f", "A", "B", "C", "D", "E", "F"}

IsCanonicalUuid(s) ==
    /\ Len(s) = 36
    /\ \A i \in 1..36 : IF i \in {9, 14, 19, 24} THEN s[i] = "-" ELSE IsHexDigit(s[i])

(***************************************************************************)
(* C1: the stored status of a process is never revisited.  In every step,  *)
(* a stored process stays stored, a status that is no longer PENDING does  *)
(* not become PENDING, and a status that has passed IN_PROGRESS (it is     *)
(* COMPLETED or FAILED) does not become IN_PROGRESS; on both backends,     *)
(* repository calls that raise included.                                   *)
(***************************************************************************)
C1_StatusNeverRevisited ==
    [][\A p \in DOMAIN processes :
          /\ p \in DOMAIN processes'
          /\ Snapshot(p).status # PENDING => SnapshotIn(processes', p).status # PENDING
          /\ Snapshot(p).status \in Terminal => SnapshotIn(processes', p).status # IN_PROGRESS
      ]_vars

\* a process that failed on the durable backend after a repository call of
\* its background step raised, next to a process that completed
C1_Witness ==
    /\ backend = "mongo"
    /\ \E p \in DOMAIN tasks :
          /\ tasks[p].pc = "done"
          /\ tasks[p].exc = "PyMongoError"
          /\ Snapshot(p).status = FAILED
    /\ \E q \in DOMAIN processes : Snapshot(q).status = COMPLETED

(***************************************************************************)
(* C2: no process goes directly from PENDING to COMPLETED or FAILED: in    *)
(* no step does a stored status change from PENDING to a terminal status.  *)
(***************************************************************************)
C2_NoPendingToTerminal ==
    [][\A p \in DOMAIN processes :
          Snapshot(p).status = PENDING => SnapshotIn(processes', p).status \notin Terminal
      ]_vars

(***************************************************************************)
(* C3: COMPLETED and FAILED are absorbing: once the stored status of a     *)
(* process is terminal, no step changes its status, its error message or   *)
(* its result payload.                                                     *)
(***************************************************************************)
C3_TerminalAbsorbing ==
    [][\A p \in DOMAIN processes :
          Snapshot(p).status \in Terminal =>
              /\ SnapshotIn(processes', p).status = Snapshot(p).status
              /\ SnapshotIn(processes', p).error_message = Snapshot(p).error_message
              /\ SnapshotIn(processes', p).result_data = Snapshot(p).result_data
      ]_vars

(***************************************************************************)
(* C4: in every reachable state every stored process has error_message     *)
(* and result_data unset while PENDING or IN_PROGRESS, result_data set and *)
(* error_message unset when COMPLETED, error_message set and result_data   *)
(* unset when FAILED.                                                      *)
(***************************************************************************)
ConsistentSnapshot(process) ==
    CASE process.status \in {PENDING, IN_PROGRESS} ->
             IsNone(process.error_message) /\ IsNone(process.result_data)
      [] process.status = COMPLETED ->
             IsNone(process.error_message) /\ ~IsNone(process.result_data)
      [] process.status = FAILED ->
             ~IsNone(process.error_message) /\ IsNone(process.result_data)

C4_ErrorResultMatchStatus == \A p \in DOMAIN processes : ConsistentSnapshot(Snapshot(p))

(***************************************************************************)
(* C5: whenever initiate_validation returns, the process returned is       *)
(* PENDING, carries the identifier passed in, has a process id that no     *)
(* process stored before the call has, and is stored under that id (the    *)
(* only change of the store); and it does return whenever the record       *)
(* repository answered with the record and create suffered no fault.       *)
(***************************************************************************)
C5_InitiateReturnsFreshPending ==
    [][event'.op = "initiate_validation" =>
          /\ (event'.found /\ event'.fault = "none") => event'.outcome = "returned"
          /\ event'.outcome = "returned" =>
                /\ event'.found
                /\ event'.result.status = PENDING
                /\ event'.result.uuid_str = event'.arg
                /\ event'.result.process_id \notin DOMAIN processes
                /\ DOMAIN processes' = DOMAIN processes \cup {event'.result.process_id}
                /\ \A p \in DOMAIN processes : processes'[p] = processes[p]
                /\ SnapshotIn(processes', event'.result.process_id) = event'.result
      ]_vars

\* a second validation of one subject has just been initiated
C5_Witness ==
    /\ event.op = "initiate_validation"
    /\ event.outcome = "returned"
    /\ \E p \in DOMAIN processes :
          /\ p # event.result.process_id
          /\ Snapshot(p).uuid_str = event.arg

(***************************************************************************)
(* C6: when initiate_validation is given a well-formed identifier and the  *)
(* record repository answers absent, the call fails with                   *)
(* EnrollmentNotFoundError, the process store is unchanged and no          *)
(* background task is created.                                             *)
(***************************************************************************)
C6_AbsentRecordCreatesNothing ==
    [][(/\ event'.op = "initiate_validation"
        /\ event'.arg.t = "str"
        /\ IsCanonicalUuid(event'.arg.v)
        /\ ~event'.found) =>
          /\ event'.outcome = "EnrollmentNotFoundError"
          /\ event'.calls = <<"enrollment_repository.get_by_uuid">>
          /\ processes' = processes
          /\ tasks' = tasks
      ]_vars

\* the lookup of a well-formed identifier came back absent while another
\* process was in flight
C6_Witness ==
    /\ event.op = "initiate_validation"
    /\ event.outcome = "EnrollmentNotFoundError"
    /\ IsCanonicalUuid(event.arg.v)
    /\ \E p \in DOMAIN tasks : tasks[p].pc = "sleeping"

(***************************************************************************)
(* C7: for every malformed identifier string initiate_validation fails     *)
(* with InvalidUuidFormatError and has called no repository.               *)
(***************************************************************************)
C7_MalformedRejectedBeforeRepositories ==
    (/\ event.op = "initiate_validation"
     /\ event.arg.t = "str"
     /\ ~IsCanonicalUuid(event.arg.v)) =>
        /\ event.outcome = "InvalidUuidFormatError"
        /\ event.calls = <<>>

(***************************************************************************)
(* C8: _validate_uuid_format returns True exactly for the strings of the   *)
(* identifier shape (36 characters, 8-4-4-4-12 hexadecimal groups) and     *)
(* False for every other string.                                           *)
(***************************************************************************)
C8_FormatAcceptsExactlyCanonical ==
    (event.op = "_validate_uuid_format" /\ event.arg.t = "str") =>
        /\ event.outcome = "returned"
        /\ event.result = PyBool(IsCanonicalUuid(event.arg.v))

(***************************************************************************)
(* C9: a missing identifier is rejected with a type error, not a format    *)
(* error: _validate_uuid_format(None) raises TypeError, and                *)
(* initiate_validation(None) ends with that TypeError, has called no       *)
(* repository, and leaves the process store and the tasks unchanged.       *)
(***************************************************************************)
C9_NoneIsTypeError ==
    [][(event'.op = "initiate_validation" /\ IsNone(event'.arg)) =>
          /\ _validate_uuid_format(event'.arg).raised = "TypeError"
          /\ event'.outcome = "TypeError"
          /\ event'.calls = <<>>
          /\ processes' = processes
          /\ tasks' = tasks
      ]_vars

\* initiate_validation(None) was called while a process was stored
C9_Witness ==
    /\ event.op = "initiate_validation"
    /\ IsNone(event.arg)
    /\ event.outcome = "TypeError"
    /\ DOMAIN processes # {}

(***************************************************************************)
(* C10 as stated: get_validation_status returns without raising, absent    *)
(* for an id that was never created and exactly the stored snapshot for a  *)
(* stored id.                                                              *)
(***************************************************************************)
C10_ReadReturnsStoredSnapshot ==
    event.op = "get_validation_status" =>
        /\ event.outcome = "returned"
        /\ event.arg \notin DOMAIN processes => IsNone(event.result)
        /\ event.arg \in DOMAIN processes => event.result = Snapshot(event.arg)

(***************************************************************************)
(* C10 amended: get_validation_status never raises, calls nothing but      *)
(* get_by_id of the process repository, and changes neither the process    *)
(* store nor the tasks; it returns absent for an id that was never         *)
(* created, and for a stored id the stored snapshot, except that a read    *)
(* of the durable backend whose access fails returns absent.               *)
(***************************************************************************)
C10_ReadThroughUnlessBackendFails ==
    [][event'.op = "get_validation_status" =>
          /\ event'.outcome = "returned"
          /\ event'.calls = <<"process_repository.get_by_id">>
          /\ processes' = processes
          /\ tasks' = tasks
          /\ event'.arg \notin DOMAIN processes => IsNone(event'.result)
          /\ (event'.arg \in DOMAIN processes /\ event'.fault = "none") =>
                event'.result = Snapshot(event'.arg)
          /\ event'.fault # "none" => (backend = "mongo" /\ IsNone(event'.result))
      ]_vars

\* the status of a process in flight was read
C10_Witness ==
    /\ event.op = "get_validation_status"
    /\ event.arg \in DOMAIN processes
    /\ ~IsNone(event.result)
    /\ event.result.status = IN_PROGRESS

(***************************************************************************)
(* C11: initiate_validation only schedules the background execution: in    *)
(* the state in which it has returned process p, the task of p exists and  *)
(* has not taken a step, and the stored status of p is PENDING.            *)
(***************************************************************************)
C11_ReturnsBeforeExecution ==
    (event.op = "initiate_validation" /\ event.outcome = "returned") =>
        /\ event.result.process_id \in DOMAIN tasks
        /\ tasks[event.result.process_id].pc = "scheduled"
        /\ Snapshot(event.result.process_id).status = PENDING

\* initiate_validation has returned while the task of another process is
\* in the middle of its execution
C11_Witness ==
    /\ event.op = "initiate_validation"
    /\ event.outcome = "returned"
    /\ \E q \in DOMAIN tasks : q # event.result.process_id /\ tasks[q].pc = "sleeping"

(***************************************************************************)
(* C12: whenever the background execution of a process has ended (it       *)
(* returned, or an exception left it), the stored status of the process    *)
(* is COMPLETED with result_data set or FAILED with error_message set.     *)
(***************************************************************************)
Ended(task) == task.pc \in {"done", "escaped"}

C12_EndedIsTerminal ==
    \A p \in DOMAIN tasks :
        Ended(tasks[p]) =>
            /\ Snapshot(p).status \in Terminal
            /\ Snapshot(p).status = COMPLETED => ~IsNone(Snapshot(p).result_data)
            /\ Snapshot(p).status = FAILED => ~IsNone(Snapshot(p).error_message)

(***************************************************************************)
(* C13: no exception leaves the background task, and a task that ended     *)
(* after an exception was raised has stored FAILED with the message of     *)
(* that exception.                                                         *)
(***************************************************************************)
C13_ExceptionsBecomeFailed ==
    \A p \in DOMAIN tasks :
        /\ tasks[p].pc # "escaped"
        /\ (tasks[p].pc = "done" /\ tasks[p].exc # NoException) =>
              /\ Snapshot(p).status = FAILED
              /\ Snapshot(p).error_message = ExcMessage(tasks[p].exc)

(***************************************************************************)
(* C14: when the record repository answers absent to the re-fetch of the   *)
(* background step (the record was there when the process was created),    *)
(* the process is IN_PROGRESS at that moment, it never becomes COMPLETED   *)
(* and never gets a result payload, and once the step has ended it is      *)
(* FAILED with a non-empty error message.                                  *)
(***************************************************************************)
\* the task read its process and then found no enrollment
RefetchAbsent(task) == ~IsNone(task.process) /\ IsNone(task.enrollment_data)

C14_DisappearedRecordFails ==
    \A p \in DOMAIN tasks :
        RefetchAbsent(tasks[p]) =>
            /\ tasks[p].pc = "not_found" => Snapshot(p).status = IN_PROGRESS
            /\ Snapshot(p).status # COMPLETED
            /\ IsNone(Snapshot(p).result_data)
            /\ Ended(tasks[p]) =>
                  /\ Snapshot(p).status = FAILED
                  /\ ~IsNone(Snapshot(p).error_message)
                  /\ Snapshot(p).error_message.v # ""

(***************************************************************************)
(* C15 as stated: update_status with a process id that is not stored       *)
(* fails with ValidationProcessNotFoundError and leaves the process store  *)
(* unchanged, on both backends.                                            *)
(***************************************************************************)
C15_UnknownIdIsNotFound ==
    [][(event'.op = "update_status" /\ ~event'.found) =>
          /\ event'.outcome = "ValidationProcessNotFoundError"
          /\ processes' = processes
      ]_vars

(***************************************************************************)
(* C15 amended: update_status with a process id that is not stored fails   *)
(* and leaves the process store unchanged; it fails with                   *)
(* ValidationProcessNotFoundError whenever the backend answers the lookup  *)
(* of the id, and with the driver's error when, on the durable backend,    *)
(* that lookup itself fails.                                               *)
(***************************************************************************)
C15_UnknownIdFailsUnchanged ==
    [][(event'.op = "update_status" /\ ~event'.found) =>
          /\ processes' = processes
          /\ IsNone(event'.result)
          /\ event'.fault = "none" => event'.outcome = "ValidationProcessNotFoundError"
          /\ event'.fault # "none" => (backend = "mongo" /\ event'.outcome = "PyMongoError")
      ]_vars

\* update_status was refused for an unknown id while a process is stored
C15_Witness ==
    /\ event.op = "update_status"
    /\ ~event.found
    /\ event.outcome = "ValidationProcessNotFoundError"
    /\ DOMAIN processes # {}

(***************************************************************************)
(* C16: under any sequence of repository calls the stored status of a      *)
(* process only moves PENDING -> IN_PROGRESS -> COMPLETED or FAILED: a     *)
(* step either keeps the status or takes one of these moves.               *)
(***************************************************************************)
AllowedMove(from, to) ==
    \/ to = from
    \/ (from = PENDING /\ to = IN_PROGRESS)
    \/ (from = IN_PROGRESS /\ to \in Terminal)

C16_RepositoryEnforcesTransitions ==
    [][\A p \in DOMAIN processes :
          /\ p \in DOMAIN processes'
          /\ AllowedMove(Snapshot(p).status, SnapshotIn(processes', p).status)
      ]_vars

(***************************************************************************)
(* C17: backend selection at startup.  When the first construction does    *)
(* not throw, the service installed uses the durable process repository;   *)
(* when it throws and the fallback construction does not, the service      *)
(* installed uses the durable record repository and an in-memory process   *)
(* repository and startup proceeds; every service installed uses the       *)
(* durable record repository.                                              *)
(***************************************************************************)
C17_BackendSelection ==
    event.op = "lifespan" =>
        /\ event.arg.mongo = "none" =>
              /\ event.outcome = "started"
              /\ event.calls = <<"create_mongo_service">>
              /\ event.result.process_repository = "MongoValidationProcessRepository"
              /\ backend = "mongo"
        /\ (event.arg.mongo # "none" /\ event.arg.hybrid = "none") =>
              /\ event.outcome = "started"
              /\ event.result.enrollment_repository = "MongoEnrollmentRepository"
              /\ event.result.process_repository = "InMemoryValidationProcessRepository"
              /\ backend = "memory"
        /\ event.outcome = "started" =>
              /\ event.result.enrollment_repository = "MongoEnrollmentRepository"
              /\ backend = BackendOf(event.result)

\* startup fell back after the durable process repository could not be built
C17_Witness ==
    /\ event.op = "lifespan"
    /\ event.arg.mongo = "process_repository"
    /\ event.outcome = "started"
    /\ backend = "memory"

(***************************************************************************)
(* C18: when the durable construction and the fallback construction both   *)
(* throw, startup raises RuntimeError, no validation service is installed  *)
(* and nothing but the two constructions was attempted.                    *)
(***************************************************************************)
C18_BothThrowIsFatal ==
    (/\ event.op = "lifespan"
     /\ event.arg.mongo # "none"
     /\ event.arg.hybrid # "none") =>
        /\ event.outcome = "RuntimeError"
        /\ IsNone(event.result)
        /\ backend = "none"
        /\ event.calls = <<"create_mongo_service", "create_hybrid_service">>

\* both constructions threw
C18_Witness ==
    /\ event.op = "lifespan"
    /\ event.arg.mongo = "enrollment_repository"
    /\ event.arg.hybrid = "enrollment_repository"
    /\ event.outcome = "RuntimeError"

(***************************************************************************)
(* C19: exactly one background execution is scheduled per process id.      *)
(* Every initiate_validation that returns adds exactly one task, under     *)
(* the id of the process it created and at its start; no other step adds   *)
(* a task, no task is ever removed or started anew; and the stored         *)
(* snapshot of a process changes only in a step of its own task, one task  *)
(* moving per step.                                                        *)
(***************************************************************************)
C19_OneTaskPerProcess ==
    [][/\ \A p \in DOMAIN tasks' \ DOMAIN tasks :
             /\ event'.op = "initiate_validation"
             /\ event'.outcome = "returned"
             /\ event'.result.process_id = p
             /\ p \notin DOMAIN processes
             /\ tasks'[p].pc = "scheduled"
       /\ (event'.op = "initiate_validation" /\ event'.outcome = "returned") =>
             DOMAIN tasks' = DOMAIN tasks \cup {event'.result.process_id}
       /\ Cardinality(DOMAIN tasks') <= Cardinality(DOMAIN tasks) + 1
       /\ \A p \in DOMAIN tasks :
             /\ p \in DOMAIN tasks'
             /\ tasks'[p].pc = "scheduled" => tasks'[p] = tasks[p]
       /\ \A p \in DOMAIN processes :
             SnapshotIn(processes', p) # Snapshot(p) =>
                 /\ p \in DOMAIN tasks
                 /\ tasks'[p] # tasks[p]
                 /\ \A q \in DOMAIN tasks \ {p} : tasks'[q] = tasks[q]
      ]_vars

\* the tasks of two processes have both taken steps
C19_Witness ==
    /\ event.op = "_perform_validation"
    /\ \E p, q \in DOMAIN tasks :
          /\ p # q
          /\ tasks[p].pc = "done"
          /\ tasks[q].pc = "sleeping"

(***************************************************************************)
(* C20: on the shared in-memory repository, with tasks and status reads    *)
(* interleaved, no entry is ever lost, a step changes the entry of at      *)
(* most one process (a step of a background task; every other entry is     *)
(* left as it was), and the status of each process keeps to                *)
(* PENDING -> IN_PROGRESS -> COMPLETED or FAILED.                          *)
(***************************************************************************)
C20_UpdateTouchesOnlyItsEntry ==
    [][backend = "memory" =>
          /\ DOMAIN processes \subseteq DOMAIN processes'
          /\ \A p \in DOMAIN processes :
                /\ AllowedMove(processes[p].status, processes'[p].status)
                /\ processes'[p] # processes[p] =>
                      /\ event'.op = "_perform_validation"
                      /\ \A q \in DOMAIN processes \ {p} : processes'[q] = processes[q]
      ]_vars

\* a task has just written to the in-memory repository while another
\* process is stored as completed
C20_Witness ==
    /\ backend = "memory"
    /\ event.op = "_perform_validation"
    /\ \E p, q \in DOMAIN processes :
          /\ p # q
          /\ processes[p].status = COMPLETED
          /\ processes[q].status = IN_PROGRESS

(***************************************************************************)
(* C21.  Every synchronous failure of initiate_validation reaches the      *)
(* caller as a named condition of its own kind.  As claimed: a malformed   *)
(* identifier, a well-formed identifier without a record and a failing     *)
(* storage backend (record repository or process repository) give three    *)
(* different kinds, so a call whose backend failed ends neither as         *)
(* InvalidUuidFormatError nor as EnrollmentNotFoundError.                  *)
(***************************************************************************)
\* the cause of a failed call with a string argument: the format check
\* stopped it, a repository call failed, or the lookup found no record
FailureCause(ev) ==
    CASE ev.calls = <<>> -> "format"
      [] ev.fault # "none" -> "backend"
      [] OTHER -> "absent"

InitiateFailed(ev) ==
    ev.op = "initiate_validation" /\ ev.outcome \notin {"returned", "TypeError"}

Succeeded(ev) ==
    /\ ev.op = "compare_student_data"
    /\ ev.outcome = "returned"
    /\ ev.result.value.status = "success"

\* the field names of a list of match or anomaly tuples
FieldsOf(tuples) == {tuples[i].field : i \in 1..Len(tuples)}

\* the keys of an extracted map, and the value it holds for a key
KeysOf(extracted_data) == {extracted_data.items[i][1] : i \in 1..Len(extracted_data.items)}

ValueOf(extracted_data, key) ==
    LET i == CHOOSE n \in 1..Len(extracted_data.items) : extracted_data.items[n][1] = key
    IN  extracted_data.items[i][2]

\* the canonical record of a student id, and its value for a key (None
\* when the record has no such field)
CanonicalRecord(student_id) == get_student_by_id(student_id, FALSE)

CanonicalValue(student_id, key) == DictGet(CanonicalRecord(student_id), key, None)

(***************************************************************************)
(* C22.  Classification: every key of the extracted map appears in         *)
(* exactly one of matches, anomalies and additional_info, and once; it is  *)
(* compared (a match or an anomaly) exactly when the canonical record      *)
(* holds a non-null value for it and is additional info otherwise; and     *)
(* total_anomalies is the number of anomaly tuples.                        *)
(***************************************************************************)
C22_EachKeyClassifiedOnce ==
    Succeeded(event) =>
        LET value == event.result.value
            student_id == event.arg.student_id
            matched == FieldsOf(value.matches)
            differing == FieldsOf(value.anomalies)
            additional == DOMAIN value.additional_info
            keys == KeysOf(event.arg.extracted_data)
        IN  /\ matched \cup differing \cup additional = keys
            /\ matched \cap differing = {}
            /\ matched \cap additional = {}
            /\ differing \cap additional = {}
            /\ Len(value.matches) = Cardinality(matched)
            /\ Len(value.anomalies) = Cardinality(differing)
            /\ \A key \in keys :
                  key \in matched \cup differing <=> ~IsNone(CanonicalValue(student_id, key))
            /\ value.total_anomalies = Len(value.anomalies)

\* a comparison with an anomaly, and with a key of an empty canonical
\* value that was compared
C22_Witness ==
    /\ Succeeded(event)
    /\ event.result.value.anomalies # <<>>
    /\ DOMAIN event.result.value.additional_info # {}
    /\ "gender" \in FieldsOf(event.result.value.anomalies)

(***************************************************************************)
(* C23.  Equality rule: two strings are equal iff they coincide after      *)
(* strip and lower; every other pair, a string against a non-string        *)
(* included, is decided by strict equality (same type, same value).        *)
(* Equal values give a match, unequal values an anomaly.                   *)
(***************************************************************************)
StrictlyEqual(a, b) ==
    IF a.t = "str" /\ b.t = "str"
    THEN PyLower(PyStrip(a.v)) = PyLower(PyStrip(b.v))
    ELSE a.t = b.t /\ a = b

C23_MatchIffEqual ==
    Succeeded(event) =>
        LET value == event.result.value
            compared == FieldsOf(value.matches) \cup FieldsOf(value.anomalies)
        IN  \A key \in compared :
               key \in FieldsOf(value.matches) <=>
                   StrictlyEqual(ValueOf(event.arg.extracted_data, key),
                                 CanonicalValue(event.arg.student_id, key))

(***************************************************************************)
(* C24.  Every anomaly tuple carries the field name and both values as     *)
(* supplied (the canonical value and the extracted value, not their        *)
(* stripped and lower-cased forms), and every match tuple carries the      *)
(* canonical value as stored.                                              *)
(***************************************************************************)
C24_TuplesCarryOriginalValues ==
    Succeeded(event) =>
        LET value == event.result.value
            student_id == event.arg.student_id
            extracted_data == event.arg.extracted_data
        IN  /\ \A i \in 1..Len(value.anomalies) :
                  LET anomaly == value.anomalies[i]
                  IN  /\ anomaly.field \in KeysOf(extracted_data)
                      /\ anomaly.mongodb_value = CanonicalValue(student_id, anomaly.field)
                      /\ anomaly.certificate_value = ValueOf(extracted_data, anomaly.field)
            /\ \A i \in 1..Len(value.matches) :
                  LET match == value.matches[i]
                  IN  /\ match.field \in KeysOf(extracted_data)
                      /\ match.value = CanonicalValue(student_id, match.field)

\* a match and an anomaly of strings that normalisation changes
C24_Witness ==
    /\ Succeeded(event)
    /\ \E i \in 1..Len(event.result.value.anomalies) :
          LET anomaly == event.result.value.anomalies[i]
          IN  /\ anomaly.certificate_value = PyStr(<<" ", "J", "A", "N", "E", " ">>)
              /\ anomaly.mongodb_value.t = "str"
    /\ \E i \in 1..Len(event.result.value.matches) :
          event.result.value.matches[i].value = PyStr(<<"J", "a", "n", "e">>)

(***************************************************************************)
(* C25.  Without a canonical record for the student id the comparator      *)
(* does not raise: it returns a result with status "error" and a message,  *)
(* and the result has no matches, anomalies or additional_info.            *)
(***************************************************************************)
C25_NoRecordIsErrorResult ==
    (event.op = "compare_student_data" /\ ~event.found) =>
        /\ event.outcome = "returned"
        /\ event.result.value.status = "error"
        /\ "message" \in DOMAIN event.result.value
        /\ DOMAIN event.result.value \cap {"matches", "anomalies", "additional_info"} = {}

\* no document for the id, and an extracted_data that a comparison would
\* have raised on
C25_Witness ==
    /\ event.op = "compare_student_data"
    /\ event.fault = "none"
    /\ ~event.found
    /\ IsNone(CanonicalRecord(event.arg.student_id))
    /\ IsNone(event.arg.extracted_data)
    /\ event.outcome = "returned"

(***************************************************************************)
(* C26.  No side effects: a call leaves the enrollmentForm collection and  *)
(* the extracted map it was handed as they were.  As claimed, two calls    *)
(* with the same student id, stored record and extracted map return the    *)
(* same result.                                                            *)
(***************************************************************************)
\* the call that ends in the next state left its arguments alone
CompareFrame ==
    event'.op = "compare_student_data" =>
        /\ event'.result.collection = EnrollmentCollection
        /\ event'.result.extracted_data = event'.arg.extracted_data

\* the next state ends a repetition of the call that ended in this one
Repeated ==
    /\ event.op = "compare_student_data"
    /\ event'.op = "compare_student_data"
    /\ event'.arg = event.arg

Abstracted(value) ==
    IF IsNone(value)
    THEN None
    ELSE [status |-> value.status, uuid_str |-> value.uuid_str, email |-> value.email,
          error_message |-> value.error_message, result_data |-> value.result_data]

C27_BackendsAgree ==
    event.op \in {"create", "get_by_id", "update_status"} =>
        /\ event.result.memory.raised = event.result.mongo.raised
        /\ Abstracted(event.result.memory.value) = Abstracted(event.result.mongo.value)

(***************************************************************************)
(* Vocabulary of the timestamp properties: the snapshot a repository of    *)
(* SpecBoth holds for an identifier, and the order of two timestamps,      *)
(* an unset one coming first.                                              *)
(***************************************************************************)
Held(stores, b, process_id) ==
    IF b = "mongo"
    THEN Mongo_get_by_id(stores.mongo, process_id, "none")
    ELSE InMemory_get_by_id(stores.memory, process_id)

NotBefore(later, earlier) == IsNone(earlier) \/ (~IsNone(later) /\ later.v >= earlier.v)

\* the call that ends in the next state was a create: updated_at is unset
FreshIsUnset ==
    event'.op = "create" =>
        \A b \in Backends : IsNone(event'.result[b].value.updated_at)

\* updated_at never decreases and is never earlier than created_at
TimestampsOrdered ==
    \A b \in Backends : \A process_id \in DOMAIN processes'[b] :
        LET after == Held(processes', b, process_id)
        IN  /\ NotBefore(after.updated_at, after.created_at) \/ IsNone(after.updated_at)
            /\ process_id \in DOMAIN processes[b] =>
                  NotBefore(after.updated_at, Held(processes, b, process_id).updated_at)

\* the step is an update_status that b carried out (a call does not
\* advance the clock)
Updated(b) ==
    /\ clock' = clock
    /\ event'.op = "update_status"
    /\ event'.result[b].raised = NoException

(***************************************************************************)
(* C29.  updated_at is unset on a freshly created process and set by every *)
(* successful update_status to the time of that call; with a clock that    *)
(* does not go back it never decreases and is never earlier than           *)
(* created_at.  As claimed: on both repositories the timestamp is the      *)
(* reading of the clock at the call.                                       *)
(***************************************************************************)
C29_UpdatedAtIsCallTime ==
    [][/\ FreshIsUnset
       /\ TimestampsOrdered
       /\ \A b \in Backends :
             Updated(b) =>
                 /\ event'.result[b].value.updated_at = PyDatetime(clock')
                 /\ Held(processes', b, event'.arg.process_id).updated_at
                        = PyDatetime(clock')]_vars

(***************************************************************************)
(* C29 as the code has it: the in-memory repository sets updated_at to     *)
(* the reading of the clock at the call, the MongoDB repository to that    *)
(* reading cut to the millisecond its collection stores.                   *)
(***************************************************************************)
C29_UpdatedAtIsCallTimeAsStored ==
    [][/\ FreshIsUnset
       /\ TimestampsOrdered
       /\ \A b \in Backends :
             LET stamp == IF b = "mongo" THEN Bson(PyDatetime(clock')) ELSE PyDatetime(clock')
             IN  Updated(b) =>
                    /\ event'.result[b].value.updated_at = stamp
                    /\ Held(processes', b, event'.arg.process_id).updated_at = stamp]_vars

\* an update after time has passed since the creation and since an
\* earlier update
C29_Witness ==
    /\ event.op = "update_status"
    /\ \A b \in Backends :
          /\ event.result[b].raised = NoException
          /\ event.result[b].value.updated_at.v > event.result[b].value.created_at.v
    /\ clock = MaxClock

(***************************************************************************)
(* C30.  update_status leaves process_id, uuid_str, email (copied from     *)
(* the record when the process was created) and created_at of every        *)
(* stored process as they were, on either repository: it changes only      *)
(* status, updated_at, error_message and result_data.                      *)
(***************************************************************************)
\* the fields update_status must not touch
Identity(process) ==
    [process_id |-> process.process_id, uuid_str |-> process.uuid_str,
     email |-> process.email, created_at |-> process.created_at]

C30_UpdateKeepsIdentity ==
    [][\A b \in Backends :
          /\ \A process_id \in DOMAIN processes[b] :
                /\ process_id \in DOMAIN processes'[b]
                /\ Identity(Held(processes', b, process_id))
                       = Identity(Held(processes, b, process_id))
          /\ Updated(b) =>
                /\ DOMAIN processes'[b] = DOMAIN processes[b]
                /\ Identity(event'.result[b].value)
                       = Identity(Held(processes, b, event'.arg.process_id))]_vars

\* an update of a process with an email that changed its status, error
\* message and result payload
C30_Witness ==
    /\ event.op = "update_status"
    /\ \A b \in Backends :
          /\ event.result[b].raised = NoException
          /\ event.result[b].value.status = COMPLETED
          /\ ~IsNone(event.result[b].value.error_message)
          /\ ~IsNone(event.result[b].value.result_data)
          /\ ~IsNone(event.result[b].value.email)
          /\ event.result[b].value.updated_at.v > event.result[b].value.created_at.v

(***************************************************************************)
(* C28.  A background step that runs for a process id that cannot be       *)
(* found in the process repository aborts silently: the task ends without  *)
(* raising (and without changing the stored state).                        *)
(***************************************************************************)
C28_NotFoundAbortsSilently ==
    \A process_id \in DOMAIN tasks :
        (process_id \notin DOMAIN processes /\ Ended(tasks[process_id])) =>
            tasks[process_id].pc = "done"

(***************************************************************************)
(* C31.  The record repository never propagates a failure of the           *)
(* collection: every call returns, and when the access raised get_by_uuid  *)
(* returns None, exists returns False and get_all_uuids returns [];        *)
(* exists(id) is True exactly when get_by_uuid(id) is not None; and the    *)
(* only collection methods the repository invokes are the reads find_one   *)
(* and find.                                                               *)
(***************************************************************************)
RecordOps == {"get_by_uuid", "exists", "get_all_uuids"}

C31_RecordRepositoryMasksFailures ==
    event.op \in RecordOps =>
        /\ event.outcome = "returned"
        /\ \A i \in DOMAIN event.calls : event.calls[i] \in {"find_one", "find"}
        /\ event.op = "exists" =>
              event.result
                  = PyBool(~IsNone(get_by_uuid(event.arg, event.fault = "lookup")))
        /\ event.fault = "lookup" =>
              /\ event.op = "get_by_uuid" => IsNone(event.result)
              /\ event.op = "exists" => event.result = PyBool(FALSE)
              /\ event.op = "get_all_uuids" => event.result = PyList(<<>>)

\* exists was asked about a stored record while the collection was failing
C31_Witness ==
    /\ event.op = "exists"
    /\ event.fault = "lookup"
    /\ event.found
    /\ event.result = PyBool(FALSE)

(***************************************************************************)
(* C32.  There is no timeout, cancellation or second writer: while the     *)
(* background execution of a process stays suspended after its IN_PROGRESS *)
(* transition, the stored status of that process is IN_PROGRESS, whatever  *)
(* initiate_validation and get_validation_status calls and whatever steps  *)
(* of other background executions have happened since.                     *)
(***************************************************************************)
Suspended(process_id) == tasks[process_id].pc = "sleeping"

C32_SuspendedStaysInProgress ==
    \A process_id \in DOMAIN tasks :
        Suspended(process_id) =>
            /\ process_id \in DOMAIN processes
            /\ Snapshot(process_id).status = IN_PROGRESS

\* a status query answered while one execution is suspended and another
\* process, initiated later, has already ended
C32_Witness ==
    /\ event.op = "get_validation_status"
    /\ \E p, q \in DOMAIN tasks :
          /\ p < q
          /\ Suspended(p)
          /\ Ended(tasks[q])
          /\ q \in DOMAIN processes
          /\ Snapshot(q).status \in Terminal

(***************************************************************************)
(* C33.  Every key the comparator places in additional_info is a field     *)
(* present only in the extracted map: a key that the canonical record      *)
(* does not contain.                                                       *)
(***************************************************************************)
C33_AdditionalInfoKeysNotInRecord ==
    Succeeded(event) =>
        \A key \in DOMAIN event.result.value.additional_info :
            /\ key \in KeysOf(event.arg.extracted_data)
            /\ key \notin DOMAIN CanonicalRecord(event.arg.student_id).v

(***************************************************************************)
(* C34.  When the durable store is unreachable at startup, the startup     *)
(* selection detects it while it constructs the durable-backed service and *)
(* falls back: the service starts, and the installed service tracks        *)
(* processes in the in-memory process repository.  Stated for the          *)
(* startups that install a service: a startup with the store unreachable   *)
(* called the fallback construction and installed the in-memory process    *)
(* repository.                                                             *)
(***************************************************************************)
C34_UnreachableStoreFallsBack ==
    (event.op = "lifespan" /\ event.fault = "unreachable" /\ event.outcome = "started") =>
        /\ event.calls = <<"create_mongo_service", "create_hybrid_service">>
        /\ event.result.process_repository = "InMemoryValidationProcessRepository"
        /\ backend = "memory"

(***************************************************************************)
(* C35.  If the record of the process's uuid_str was present when the      *)
(* background step fetched it again and no repository call failed, then    *)
(* whatever the shape of the record (students_info and verification        *)
(* present, missing or null) the process ends COMPLETED with a result_data *)
(* whose enrollment_uuid is the process's uuid_str, whose students_count   *)
(* is the number of entries of students_info (0 when there is none) and    *)
(* whose verification_status is verification.verified (False when there    *)
(* is none).                                                               *)
(***************************************************************************)
C35_PresentRecordCompletes ==
    \A p \in DOMAIN tasks :
        (/\ faults = MaxFaults
         /\ Ended(tasks[p])
         /\ ~IsNone(tasks[p].enrollment_data)) =>
            LET record == tasks[p].enrollment_data
                students_info == DictGet(record, "students_info", None)
                verification == DictGet(record, "verification", None)
                stored == Snapshot(p)
            IN  /\ stored.status = COMPLETED
                /\ stored.result_data.v.enrollment_uuid = stored.uuid_str
                /\ stored.result_data.v.students_count
                       = PyInt(IF students_info.t = "list" THEN Len(students_info.v) ELSE 0)
                /\ stored.result_data.v.verification_status
                       = IF verification.t = "dict"
                         THEN DictGet(verification, "verified", PyBool(FALSE))
                         ELSE PyBool(FALSE)

(***************************************************************************)
(* C36.  A snapshot returned by initiate_validation (the object create     *)
(* returned) or by get_validation_status (the object get_by_id returned)   *)
(* is never mutated by a later update_status: the repository replaces the  *)
(* stored entry with a new object, so an object held by a caller keeps the *)
(* status, error_message and result_data it had when it was returned.      *)
(***************************************************************************)
C36_HeldSnapshotsNeverMutated ==
    [][\A ref \in processes.held :
          /\ processes'.objects[ref].status = processes.objects[ref].status
          /\ processes'.objects[ref].error_message = processes.objects[ref].error_message
          /\ processes'.objects[ref].result_data = processes.objects[ref].result_data
      ]_vars

\* an in-memory update has completed a process while a caller holds the
\* snapshot returned by create, and another the one returned by get_by_id
\* after a first update
C36_Witness ==
    /\ backend = "memory"
    /\ event.op = "update_status"
    /\ event.outcome = "returned"
    /\ processes.objects[processes.entries[1]].status = COMPLETED
    /\ processes.entries[1] \notin processes.held
    /\ \E created, fetched \in processes.held :
          /\ processes.objects[created].status = PENDING
          /\ processes.objects[fetched].status = IN_PROGRESS

(***************************************************************************)
(* C37.  If the process repository's create raises inside                  *)
(* initiate_validation (valid identifier, record found), the call fails    *)
(* with ValidationServiceError, no background execution is scheduled and   *)
(* no process is stored; conversely every process stored by                *)
(* initiate_validation has a background execution scheduled for it.        *)
(***************************************************************************)
CreateRaised(ev) ==
    /\ ev.op = "initiate_validation"
    /\ ev.outcome # "returned"
    /\ Len(ev.calls) = 2
    /\ ev.calls[2] = "process_repository.create"

C37_FailedCreateStoresNothing ==
    [][/\ CreateRaised(event') =>
             /\ event'.outcome = "ValidationServiceError"
             /\ tasks' = tasks
             /\ processes' = processes
       /\ DOMAIN processes' \subseteq DOMAIN tasks'
      ]_vars

(***************************************************************************)
(* C38.  Liveness on the in-memory backend: under weak fairness of the     *)
(* event loop (every scheduled background task is eventually run and its   *)
(* simulated work eventually finishes), every process created by           *)
(* initiate_validation eventually reaches COMPLETED or FAILED, however     *)
(* many processes are initiated concurrently.  A stored process is never   *)
(* removed, so the property is stated as: again and again, the process is  *)
(* not stored yet or its stored status is COMPLETED or FAILED.             *)
(***************************************************************************)
C38_EveryProcessEventuallyTerminal ==
    \A process_id \in ProcIds :
        []<>(process_id \in DOMAIN processes => Snapshot(process_id).status \in Terminal)

\* two processes initiated before either had run have both ended, one
\* completed and one failed
C38_Witness ==
    /\ backend = "memory"
    /\ Cardinality(DOMAIN processes) = MaxProcs
    /\ \A p \in DOMAIN processes : Snapshot(p).status \in Terminal
    /\ \E p, q \in DOMAIN processes :
          /\ Snapshot(p).status = COMPLETED
          /\ Snapshot(q).status = FAILED

(***************************************************************************)
(* C39.  In the session context of the validation agent, after any         *)
(* sequence of process_birth_certificate and approve_mongodb_updates       *)
(* calls, the updates applied by approve_mongodb_updates are the anomalies *)
(* of the most recent comparison and are applied to the student of that    *)
(* comparison (updates computed for one student are never applied to       *)
(* another), and after a successful approval a second approval applies     *)
(* nothing.  The most recent comparison is that of last_student_id with    *)
(* document_data, which every successful comparison assigns.               *)
(***************************************************************************)
LastComparison(context) ==
    compare_student_data(context.last_student_id, context.document_data, FALSE).value

C39_ApprovalAppliesLastComparison ==
    [][event'.op = "approve_mongodb_updates" =>
          /\ event'.calls # <<>> =>
                /\ event'.result.student_id = processes.context.last_student_id
                /\ event'.result.updates
                       = PendingUpdates(LastComparison(processes.context).anomalies, <<>>)
          /\ (event.op = "approve_mongodb_updates" /\ event.outcome = "successful") =>
                event'.calls = <<>>
      ]_vars

====
